---- MODULE Spec2Model ----
(***************************************************************************)
(* State-machine model of pymrio/tools/ioparser.py: the per-source        *)
(* adapters (EXIOBASE 1/2, WIOD, OECD-ICIO, Eora26) that turn raw files   *)
(* into an IOSystem plus its MRIOMetaData provenance record.              *)
(*                                                                         *)
(* One adapter call is one behaviour: Init<Adapter> draws the raw         *)
(* location (directory listing, archive, workbook cells) from bounded     *)
(* sets, the actions are the successive blocks of the adapter's code.     *)
(***************************************************************************)
EXTENDS Integers, Sequences, FiniteSets, TLC

VARIABLES
    pc,         \* position of the running adapter in its code
    fs,         \* the raw location the adapter was called on, and its parameters
    loc,        \* the adapter's local variables
    meta_rec,   \* the MRIOMetaData history: a sequence of entries
    opened,     \* history of raw files opened so far (resolved paths)
    zips,       \* archive handles currently open
    ret         \* what the call produced: nothing yet, a system, or an exception

vars == <<pc, fs, loc, meta_rec, opened, zips, ret>>

(***************************************************************************)
(* Sequences, tables                                                       *)
(***************************************************************************)
Range(s) == {s[i] : i \in DOMAIN s}

RECURSIVE SeqSum(_)
SeqSum(s) == IF s = <<>> THEN 0 ELSE Head(s) + SeqSum(Tail(s))

\* the subsequence of s whose elements satisfy Test, order kept
SelectIdx(s, Keep(_)) ==
    LET RECURSIVE Go(_)
        Go(i) == IF i > Len(s) THEN <<>>
                 ELSE (IF Keep(i) THEN <<i>> ELSE <<>>) \o Go(i + 1)
    IN Go(1)

\* the elements of s in the order of their first occurrence (Index.unique)
Unique(s) ==
    LET first == SelectIdx(s, LAMBDA i : \A q \in 1..(i - 1) : s[q] # s[i])
    IN [k \in 1..Len(first) |-> s[first[k]]]

\* F applied to the value of v, which is computed once
With(v, F(_)) == CHOOSE r \in {F(x) : x \in {v}} : TRUE

\* positions of a sequence, as a sequence
Positions(s) == [i \in 1..Len(s) |-> i]

\* a labelled table (pandas DataFrame): ordered row keys, ordered column keys, cells
Table(index, columns, values) ==
    [index |-> index, columns |-> columns, values |-> values]

\* rows rs and columns cs (sequences of positions) of table t, in that order
Take(t, rs, cs) ==
    Table([i \in 1..Len(rs) |-> t.index[rs[i]]],
          [j \in 1..Len(cs) |-> t.columns[cs[j]]],
          [i \in 1..Len(rs) |-> [j \in 1..Len(cs) |-> t.values[rs[i]][cs[j]]]])

Shape(t) == <<Len(t.index), Len(t.columns)>>

TableSum(t) == SeqSum([i \in 1..Len(t.index) |-> SeqSum(t.values[i])])

\* an n x m block of zeros
Zeros(n, m) == [i \in 1..n |-> [j \in 1..m |-> 0]]

\* a sheet read with header=None is a grid of cells: a sequence of rows.
\* The code addresses it by 0-based position; iloc below does the same.
NaN == "nan"

NRows(g) == Len(g)

NCols(g) == IF Len(g) = 0 THEN 0 ELSE Len(g[1])

\* g.iloc[r, c]
At(g, r, c) == g[r + 1][c + 1]

\* g.iloc[r0:r1, c0:c1]
ILoc(g, r0, r1, c0, c1) ==
    [i \in 1..(r1 - r0) |-> [j \in 1..(c1 - c0) |-> g[r0 + i][c0 + j]]]

\* g.iloc[:, c] and g.iloc[r, :] as sequences
ColOf(g, c) == [i \in 1..NRows(g) |-> g[i][c + 1]]

RowOf(g, r) == g[r + 1]

(***************************************************************************)
(* MRIOMetaData: the provenance record                                     *)
(***************************************************************************)
Entry(kind, text) == [kind |-> kind, text |-> text]

_add_fileio(log, text) == Append(log, Entry("fileio", text))

_add_modify(log, text) == Append(log, Entry("modify", text))

note(log, text) == Append(log, Entry("note", text))

change_meta(log, para, value) == Append(log, Entry("meta", <<para, value>>))

EntriesOf(log, kind) == SelectSeq(log, LAMBDA e : e.kind = kind)

(***************************************************************************)
(* Results of a call                                                       *)
(***************************************************************************)
NoRet == [kind |-> "none"]

Raise(exc) == [kind |-> "error", exc |-> exc]

Returned == ret.kind = "system"

Failed == ret.kind = "error"

(***************************************************************************)
(* EXIOBASE 1/2: get_exiobase_files, generic_exiobase12_parser,            *)
(* parse_exiobase1 / parse_exiobase2                                       *)
(***************************************************************************)
\* A file name is held by the parts the code's regular expressions look at:
\* whether an underscore precedes the stem, the stem, and the version digits
\* that follow it (<<>>: the name carries none).
FileName(under, stem, ver) == [under |-> under, stem |-> stem, ver |-> ver]

\* exio_core_regex for coefficients=True, in the dict's order; each pattern is
\* (?<!\_)<stem>.*txt.  ext_name and table_type are what the two regular
\* expressions of generic_exiobase12_parser extract from the key.
exio_core_regex ==
    << [kk |-> "A",               stem |-> "mrIot",          ext_name |-> "",              table_type |-> "A"],
       [kk |-> "Y",               stem |-> "mrFinalDemand",  ext_name |-> "",              table_type |-> "Y"],
       [kk |-> "S_factor_inputs", stem |-> "mrFactorInputs", ext_name |-> "factor_inputs", table_type |-> "S"],
       [kk |-> "S_emissions",     stem |-> "mrEmissions",    ext_name |-> "emissions",     table_type |-> "S"],
       [kk |-> "S_materials",     stem |-> "mrMaterials",    ext_name |-> "materials",     table_type |-> "S"],
       [kk |-> "S_resources",     stem |-> "mrResources",    ext_name |-> "resources",     table_type |-> "S"],
       [kk |-> "F_Y_resources",   stem |-> "mrFDResources",  ext_name |-> "resources",     table_type |-> "F_Y"],
       [kk |-> "F_Y_emissions",   stem |-> "mrFDEmissions",  ext_name |-> "emissions",     table_type |-> "F_Y"],
       [kk |-> "F_Y_materials",   stem |-> "mrFDMaterials",  ext_name |-> "materials",     table_type |-> "F_Y"] >>

\* vv.search(ff): the stem occurs and is not preceded by an underscore
RegexSearch(vv, ff) == ff.stem = vv.stem /\ ~ff.under

get_exiobase12_version(filename) == filename.ver

\* the layout of a raw file as the sniffer reports it
sniff_csv_format(ff) ==
    [sep |-> fs.content[ff].sep,
     nr_header_row |-> fs.content[ff].nr_header_row,
     nr_index_col |-> fs.content[ff].nr_index_col]

\* get_exiobase_files: the dict of located tables, as a sequence in insertion order
get_exiobase_files(path) ==
    LET EntryOf(vv) ==
            LET found_file == SelectSeq(path.filelist, LAMBDA ff : RegexSearch(vv, ff))
                format_para == sniff_csv_format(found_file[1])
            IN IF Len(found_file) > 1 THEN <<>>        \* warning, found_file[0:1], no entry
               ELSE IF Len(found_file) = 0 THEN <<>>   \* continue
               ELSE << [tt |-> vv.kk,
                        root_repo |-> path.root,
                        file_path |-> found_file[1],
                        version |-> get_exiobase12_version(found_file[1]),
                        index_rows |-> format_para.nr_header_row,
                        index_col |-> format_para.nr_index_col,
                        unit_col |-> format_para.nr_index_col - 1,
                        sep |-> format_para.sep] >>
        RECURSIVE Go(_)
        Go(i) == IF i > Len(exio_core_regex) THEN <<>>
                 ELSE EntryOf(exio_core_regex[i]) \o Go(i + 1)
    IN Go(1)

core_components == {"A", "Y", "Z"}

RegexOf(tt) == CHOOSE vv \in Range(exio_core_regex) : vv.kk = tt

\* drop the last component (the unit level) of every key
DropUnitLevel(keys) == [i \in 1..Len(keys) |-> SubSeq(keys[i], 1, Len(keys[i]) - 1)]

\* the unit level of every key, as a one-column table over the remaining levels
UnitTable(keys) ==
    Table(DropUnitLevel(keys), <<"unit">>,
          [i \in 1..Len(keys) |-> << keys[i][Len(keys[i])] >>])

\* units are held split at "/": "M.EUR" is <<"M.EUR">>, "kg/M.EUR" is <<"kg", "M.EUR">>
\* _unit.unit.str.replace('/' + mon_unit, ''), and for an empty result
\* the original with '/' removed
StripMonUnit(u, mon_unit) ==
    LET new == IF Len(u) = 2 /\ <<u[2]>> = mon_unit THEN <<u[1]>> ELSE u
    IN IF new = <<"">> THEN Tail(u) ELSE new

\* dicts that the code iterates are sequences of [tt, ...] in insertion order
Keys(d) == {d[i].tt : i \in DOMAIN d}

Get(d, tt) == (CHOOSE e \in Range(d) : e.tt = tt)

\* ' & '.join(<set of versions>): any order of the set's elements
Joinings(S) ==
    {q \in [1..Cardinality(S) -> S] : \A i, j \in DOMAIN q : i # j => q[i] # q[j]}

\* pd.read_csv(..., index_col=range(index_col), header=range(index_rows)) of a
\* file that is separated by the separator the call names
read_csv(ff) ==
    Table(fs.content[ff].index, fs.content[ff].columns, fs.content[ff].values)

\* the names of the levels of a table's row index and of its columns
LevelNames(index, columns) == [index |-> index, columns |-> columns]

ExioLoc0 ==
    [exio_files |-> <<>>, version |-> <<>>, i |-> 1, reads |-> <<>>, core_data |-> <<>>,
     ext_data |-> <<>>, unit |-> <<>>, mon_unit |-> <<>>, extensions |-> <<>>,
     io |-> NoRet]

\* parse_exiobase1 / parse_exiobase2 up to the call of generic_exiobase12_parser,
\* and the parser's first lines (version, meta_rec)
ExioLocate ==
    /\ pc = "exio_start"
    /\ LET exio_files == get_exiobase_files(fs.path)
           versions == {exio_files[i].version : i \in DOMAIN exio_files} \ {<<>>}
       IN IF Len(exio_files) = 0
          THEN /\ ret' = Raise("ParserError")
               /\ pc' = "done"
               /\ UNCHANGED <<loc, meta_rec>>
          ELSE \E version \in Joinings(versions) :
               /\ loc' = [ExioLoc0 EXCEPT !.exio_files = exio_files,
                            !.version = IF Len(version) = 0 THEN << <<1>> >> ELSE version]
               /\ meta_rec' = IF Len(version) = 0
                              THEN change_meta(note(<<>>, "No version information found, assuming exiobase 1"),
                                               "version", 1)
                              ELSE <<>>
               /\ pc' = "exio_read"
               /\ UNCHANGED ret
    /\ UNCHANGED <<fs, opened, zips>>

IsZipRepo(tpara) == tpara.root_repo.iszip

\* with zipfile.ZipFile(tpara['root_repo'], 'r') as zz:
ExioOpenZip ==
    /\ pc = "exio_read"
    /\ loc.i <= Len(loc.exio_files)
    /\ IsZipRepo(loc.exio_files[loc.i])
    /\ loc.exio_files[loc.i].root_repo \notin zips
    /\ zips' = zips \cup {loc.exio_files[loc.i].root_repo}
    /\ UNCHANGED <<pc, fs, loc, meta_rec, opened, ret>>

\* the keyword arguments of the call of pd.read_csv for a located file
read_csv_args(tpara) ==
    [tt |-> tpara.tt, index_col |-> tpara.index_col, header |-> tpara.index_rows,
     sep |-> "tab"]

\* one turn of the loop that reads the located files; a file that holds no tab
\* is one column wide, and read_csv finds no column index_col names
ExioRead ==
    /\ pc = "exio_read"
    /\ loc.i <= Len(loc.exio_files)
    /\ LET tpara == loc.exio_files[loc.i]
           full_file_path == <<tpara.root_repo, tpara.file_path>>
           args == read_csv_args(tpara)
           raw_data == [tt |-> tpara.tt, raw |-> read_csv(tpara.file_path)]
       IN /\ IsZipRepo(tpara) => tpara.root_repo \in zips
          /\ zips' = zips \ {tpara.root_repo}
          /\ opened' = Append(opened, full_file_path)
          /\ IF fs.content[tpara.file_path].sep # args.sep
             THEN /\ loc' = [loc EXCEPT !.reads = Append(loc.reads, args)]
                  /\ ret' = Raise("IndexError")
                  /\ pc' = "done"
                  /\ UNCHANGED meta_rec
             ELSE /\ meta_rec' = _add_fileio(meta_rec, full_file_path)
                  /\ loc' = [loc EXCEPT !.i = loc.i + 1,
                                !.reads = Append(loc.reads, args),
                                !.core_data = IF tpara.tt \in core_components
                                              THEN Append(loc.core_data, raw_data) ELSE loc.core_data,
                                !.ext_data = IF tpara.tt \in core_components
                                             THEN loc.ext_data ELSE Append(loc.ext_data, raw_data)]
                  /\ UNCHANGED <<pc, ret>>
    /\ UNCHANGED fs

\* for table in core_data: ... ; core_data['unit'] = _unit ; mon_unit
ExioCore ==
    /\ pc = "exio_read"
    /\ loc.i > Len(loc.exio_files)
    /\ LET AZ == SelectSeq(loc.core_data, LAMBDA e : e.tt \in {"A", "Z"})
           badnames == \E e \in Range(loc.core_data) :
                          \/ \E k \in Range(e.raw.index) : Len(k) # 3
                          \/ \E k \in Range(e.raw.columns) : Len(k) # 2
           _unit == UnitTable(AZ[Len(AZ)].raw.index)
           mon_unit0 == _unit.values[1][1]
           mon_unit == IF Len(mon_unit0) > 1 THEN <<mon_unit0[1]>> ELSE mon_unit0
           core == [i \in DOMAIN loc.core_data |->
                      [tt |-> loc.core_data[i].tt,
                       raw |-> [loc.core_data[i].raw EXCEPT
                                  !.index = DropUnitLevel(loc.core_data[i].raw.index)],
                       names |-> LevelNames(<<"region", "sector">>,
                                            IF loc.core_data[i].tt = "Y"
                                            THEN <<"region", "category">>
                                            ELSE <<"region", "sector">>)]]
       IN IF badnames
          THEN /\ ret' = Raise("ValueError")
               /\ pc' = "done"
               /\ UNCHANGED loc
          ELSE IF Len(AZ) = 0
          THEN /\ ret' = Raise("UnboundLocalError")
               /\ pc' = "done"
               /\ UNCHANGED loc
          ELSE /\ loc' = [loc EXCEPT !.core_data = core, !.i = 1, !.mon_unit = mon_unit,
                            !.unit = IF Len(mon_unit0) > 1
                                     THEN [_unit EXCEPT !.values =
                                            [r \in DOMAIN _unit.values |-> <<mon_unit>>]]
                                     ELSE _unit]
               /\ pc' = "exio_ext"
               /\ UNCHANGED ret
    /\ UNCHANGED <<fs, meta_rec, opened, zips>>

\* dict.update on a dict held as a sequence of [tt, ...]
Update(d, e) ==
    IF e.tt \in Keys(d)
    THEN [i \in DOMAIN d |-> IF d[i].tt = e.tt THEN e ELSE d[i]]
    ELSE Append(d, e)

\* one turn of the loop over the extension files
ExioExt ==
    /\ pc = "exio_ext"
    /\ loc.i <= Len(loc.exio_files)
    /\ LET tpara == loc.exio_files[loc.i]
           tt == tpara.tt
           ext_name == RegexOf(tt).ext_name
           table_type == RegexOf(tt).table_type
           raw == Get(loc.ext_data, tt).raw
           _unit == UnitTable(raw.index)
           _new_unit == [_unit EXCEPT !.values =
                           [r \in DOMAIN _unit.values |->
                              << StripMonUnit(_unit.values[r][1], loc.mon_unit) >>]]
           old == IF ext_name \in Keys(loc.extensions)
                  THEN Get(loc.extensions, ext_name).tables ELSE <<>>
           index_names == IF tpara.index_col = 3 THEN <<"stressor", "compartment">>
                          ELSE <<"stressor">>
           ext_dict == [tt |-> ext_name,
                        tables |-> Update(old, [tt |-> table_type,
                                                raw |-> [raw EXCEPT !.index = DropUnitLevel(raw.index)],
                                                names |-> LevelNames(index_names,
                                                            IF table_type = "F_Y"
                                                            THEN <<"region", "category">>
                                                            ELSE <<"region", "sector">>)]),
                        unit |-> _new_unit,
                        unit_names |-> LevelNames(index_names, <<>>),
                        name |-> ext_name]
       IN IF tt \in core_components
          THEN /\ loc' = [loc EXCEPT !.i = loc.i + 1]
               /\ UNCHANGED <<pc, ret>>
          ELSE IF tpara.index_col \notin {2, 3}
          THEN /\ ret' = Raise("ParserError")
               /\ pc' = "done"
               /\ UNCHANGED loc
          ELSE /\ loc' = [loc EXCEPT !.i = loc.i + 1,
                            !.extensions = Update(loc.extensions, ext_dict)]
               /\ UNCHANGED <<pc, ret>>
    /\ UNCHANGED <<fs, meta_rec, opened, zips>>

\* the first character of the joined version string
VersionHead(version) == version[1][1]

\* IOSystem(version=..., year=..., meta=meta_rec, **dict(core_data, **extensions))
IOSystem(core, ext, meta) ==
    [kind |-> "system", core |-> core, ext |-> ext, meta |-> meta]

\* the end of generic_exiobase12_parser: year from the version, the system
ExioBuild ==
    /\ pc = "exio_ext"
    /\ loc.i > Len(loc.exio_files)
    /\ \E io \in {IOSystem(Append(loc.core_data,
                                   [tt |-> "unit", raw |-> loc.unit,
                                    names |-> LevelNames(<<"region", "sector">>, <<>>)]),
                            loc.extensions,
                            [version |-> loc.version,
                             year |-> IF VersionHead(loc.version) \in {1, 2} THEN 2000 ELSE 0])} :
          IF VersionHead(loc.version) = 3
          THEN ret' = Raise("ParserError") /\ pc' = "done" /\ UNCHANGED loc
          ELSE IF fs.adapter = "parse_exiobase2"
          THEN loc' = [loc EXCEPT !.io = io] /\ pc' = "exio_charact" /\ UNCHANGED ret
          ELSE ret' = io /\ pc' = "done" /\ UNCHANGED loc
    /\ UNCHANGED <<fs, meta_rec, opened, zips>>

(***************************************************************************)
(* parse_exiobase2: the characterisation matrices and the impact extension *)
(***************************************************************************)
\* Qsheets, in the dict's order
Qsheets ==
    << [Qname |-> "Q_factorinputs", ext |-> "factor_inputs"],
       [Qname |-> "Q_emission",     ext |-> "emissions"],
       [Qname |-> "Q_materials",    ext |-> "materials"],
       [Qname |-> "Q_resources",    ext |-> "resources"] >>

\* number of rows containing col headers at the top, skipped by read_excel
Q_head_row(Qname) == IF Qname \in {"Q_emission", "Q_resources"} THEN 3 ELSE 2

\* column to use as name for the rows
Q_head_col_rowname(Qname) == IF Qname = "Q_emission" THEN 1 ELSE 0

\* column to use as unit for the rows, the last column before the data
Q_head_col_rowunit(Qname) == IF Qname = "Q_emission" THEN 3 ELSE 1

\* re.search(charac_regex, ff) with (?<!\_)(?<!\.)characterisation.*xlsx
charac_regex(ff) == ff.stem = "characterisation" /\ ~ff.under

\* bool(charact): True, a non-empty string and a class are true
Truthy(charact) == charact.kind # "False"

\* charact is str: the identity of the argument with the class str, which
\* holds for no string
CharactIsStr(charact) == charact.kind = "type"

\* pd.read_excel(..., sheet_name=Qname, skiprows=range(0, Q_head_row[Qname]), header=None)
read_excel_Q(workbook, Qname) ==
    LET sheet == workbook[Qname]
    IN ILoc(sheet, Q_head_row(Qname), NRows(sheet), 0, NCols(sheet))

\* numpy / DataFrame dot of two matrices held as sequences of rows
Dot(A, B) ==
    [i \in 1..Len(A) |-> [j \in 1..NCols(B) |->
        SeqSum([k \in 1..Len(B) |-> A[i][k] * B[k][j]])]]

\* one turn of the loop over Qsheets: the rows named, the unit column split
\* off, and the impacts of the extension's S and F_Y.  same is the outcome of
\* "Qname is 'Q_emission'", the identity of two equal strings.
ImpactOfSheet(q, charac_data, io, same) ==
    LET Qname == q.Qname
        data == charac_data[Qname]
        _index0 == ColOf(data, Q_head_col_rowname(Qname))
        fix == Qname = "Q_emission" /\ same
        _index == [i \in DOMAIN _index0 |->
                     IF fix /\ i - 1 \in {42, 43} THEN Append(_index0[i], "2008")
                     ELSE IF fix /\ i - 1 \in {44, 45} THEN Append(_index0[i], "2010")
                     ELSE _index0[i]]
        _unit == [i \in 1..NRows(data) |-> << At(data, i - 1, Q_head_col_rowunit(Qname)) >>]
        coef == ILoc(data, 0, NRows(data), Q_head_col_rowunit(Qname) + 1, NCols(data))
        tables == Get(io.ext, q.ext).tables
        S == Get(tables, "S").raw
        _F_Y == IF "F_Y" \in Keys(tables) THEN Get(tables, "F_Y").raw.values
                ELSE Zeros(Len(S.index), Len(Get(io.core, "Y").raw.columns))
    IN IF fix /\ NRows(data) <= 45 THEN [exc |-> "IndexError"]
       ELSE IF q.ext \notin Keys(io.ext) THEN [exc |-> "KeyError"]
       ELSE IF "S" \notin Keys(tables) THEN [exc |-> "AttributeError"]
       ELSE IF "F_Y" \notin Keys(tables) /\ "Y" \notin Keys(io.core)
       THEN [exc |-> "AttributeError"]
       ELSE IF NCols(coef) # Len(S.values) \/ NCols(coef) # Len(_F_Y)
       THEN [exc |-> "ValueError"]
       ELSE [exc |-> "", index |-> [i \in DOMAIN _index |-> << _index[i] >>],
             S |-> Dot(coef, S.values), F_Y |-> Dot(coef, _F_Y), unit |-> _unit]

\* the four sheets' impacts appended in the order
\* Q_factorinputs, Q_emission, Q_materials, Q_resources and labelled with the
\* columns of the emissions extension
ImpactExtension(charac_data, io, same) ==
    LET _impact == [n \in DOMAIN Qsheets |-> ImpactOfSheet(Qsheets[n], charac_data, io, same)]
        failed == {n \in DOMAIN Qsheets : _impact[n].exc # ""}
        first == CHOOSE n \in failed : \A m \in failed : n <= m
        Cat(f) == _impact[1][f] \o _impact[2][f] \o _impact[3][f] \o _impact[4][f]
        emissions == Get(io.ext, "emissions").tables
    IN IF failed # {} THEN [exc |-> _impact[first].exc]
       ELSE IF "F_Y" \notin Keys(emissions) THEN [exc |-> "AttributeError"]
       ELSE IF \/ NCols(Cat("S")) # Len(Get(emissions, "S").raw.columns)
               \/ NCols(Cat("F_Y")) # Len(Get(emissions, "F_Y").raw.columns)
       THEN [exc |-> "ValueError"]
       ELSE [exc |-> "",
             impact |->
               [tt |-> "impact",
                tables |-> << [tt |-> "S",
                               raw |-> Table(Cat("index"), Get(emissions, "S").raw.columns, Cat("S")),
                               names |-> LevelNames(<<"impact">>, Get(emissions, "S").names.columns)],
                              [tt |-> "F_Y",
                               raw |-> Table(Cat("index"), Get(emissions, "F_Y").raw.columns, Cat("F_Y")),
                               names |-> LevelNames(<<"impact">>, Get(emissions, "F_Y").names.columns)] >>,
                unit |-> Table(Cat("index"), <<"unit">>, Cat("unit")),
                unit_names |-> LevelNames(<<"impact">>, <<>>),
                name |-> "impact"]]

\* PYMRIO_PATH['exio20'] + './misc/population.txt'
population_file == << [name |-> "PYMRIO_PATH", iszip |-> FALSE],
                      FileName(FALSE, "population", <<>>) >>

\* parse_exiobase2 after generic_exiobase12_parser: the characterisation
\* matrices, the impact extension, the population vector
ExioCharact ==
    /\ pc = "exio_charact"
    /\ LET charac_files == SelectSeq(fs.path.filelist, charac_regex)
           found == <<fs.path.root, charac_files[1]>>
           Finish(io, read) ==
               /\ ret' = io
               /\ opened' = opened \o read \o <<population_file>>
       IN IF ~Truthy(fs.charact)
          THEN Finish(loc.io, <<>>)
          ELSE IF CharactIsStr(fs.charact)
          THEN ret' = Raise("ValueError") /\ UNCHANGED opened
          ELSE IF Len(charac_files) # 1
          THEN ret' = Raise("ParserError") /\ UNCHANGED opened
          ELSE \E same \in BOOLEAN :
               \E r \in {ImpactExtension([n \in {Qsheets[k].Qname : k \in DOMAIN Qsheets} |->
                                            read_excel_Q(fs.workbooks[found], n)],
                                         loc.io, same)} :
                  IF r.exc # ""
                  THEN ret' = Raise(r.exc) /\ opened' = Append(opened, found)
                  ELSE Finish([loc.io EXCEPT !.ext = Append(@, r.impact)], <<found>>)
    /\ pc' = "done"
    /\ UNCHANGED <<fs, loc, meta_rec, zips>>

(***************************************************************************)
(* EXIOBASE raw locations                                                  *)
(***************************************************************************)
ExioRegSec == << <<"AT", "s1">>, <<"BE", "s1">> >>

ExioRegCat == << <<"AT", "c1">>, <<"BE", "c1">> >>

Reverse(s) == [i \in 1..Len(s) |-> s[Len(s) + 1 - i]]

WithUnit(keys, u) == [i \in 1..Len(keys) |-> Append(keys[i], u)]

ExioPool ==
    << FileName(FALSE, "mrIot", <<2, 2, 0>>),
       FileName(FALSE, "mrIot", <<2, 2, 2>>),
       FileName(TRUE, "mrIot", <<2, 2, 0>>),
       FileName(FALSE, "mrFinalDemand", <<2, 2, 0>>),
       FileName(FALSE, "mrEmissions", <<>>),
       FileName(FALSE, "mrFDEmissions", <<3, 1>>) >>

\* the tables of a complete EXIOBASE 2 release
Exio2Files ==
    << FileName(FALSE, "mrIot", <<2, 2, 2>>),
       FileName(FALSE, "mrFinalDemand", <<2, 2, 0>>),
       FileName(FALSE, "mrFactorInputs", <<>>),
       FileName(FALSE, "mrEmissions", <<>>),
       FileName(FALSE, "mrMaterials", <<>>),
       FileName(FALSE, "mrResources", <<>>),
       FileName(FALSE, "mrFDEmissions", <<3, 1>>) >>

\* the characterisation workbooks a location can hold, and one kept elsewhere
CharacFiles == << FileName(FALSE, "characterisation", <<1>>),
                 FileName(FALSE, "characterisation", <<2>>) >>

CharacElsewhere == << [name |-> "elsewhere", iszip |-> FALSE],
                      FileName(FALSE, "characterisation", <<0>>) >>

\* a sheet of a characterisation workbook with n impacts for one stressor:
\* the header rows, then per impact the leading columns and one coefficient
CharacSheet(Qname, n) ==
    [r \in 1..(Q_head_row(Qname) + n) |->
       IF r <= Q_head_row(Qname)
       THEN [c \in 1..(Q_head_col_rowunit(Qname) + 2) |-> "header"]
       ELSE IF Qname = "Q_emission"
       THEN << "nr", <<Qname, r>>, "compartment", "unit", 1 >>
       ELSE << <<Qname, r>>, "unit", 1 >>]

\* a workbook whose sheet Q_emission has nemis impacts
CharacWorkbook(nemis) ==
    [Qname \in {Qsheets[k].Qname : k \in DOMAIN Qsheets} |->
       CharacSheet(Qname, IF Qname = "Q_emission" THEN nemis ELSE 1)]

\* the values of the charact parameter: True, False, a file name, the class str
CharactVariants ==
    { [kind |-> "True"], [kind |-> "False"], [kind |-> "string", value |-> CharacElsewhere],
      [kind |-> "type"] }

\* the row keys of an extension file with index_col index columns
ExioExtKey(stressor, index_col) ==
    IF index_col = 3 THEN <<stressor, "air", <<"kg", "M.EUR">> >>
    ELSE IF index_col = 2 THEN <<stressor, <<"kg", "M.EUR">> >>
    ELSE <<stressor>>

\* what the files of a location hold: yrows is the order of the rows of the
\* final demand file, ext_index_col the number of index columns of the
\* extension files, fdrows whether the final demand file of an extension lists
\* the stressors of its factor file or one more
ExioContent(yrows, ext_index_col, fdrows, sep) ==
    [ff \in Range(ExioPool) \cup Range(Exio2Files) |->
       IF ff.stem = "mrIot"
       THEN [sep |-> sep, nr_header_row |-> 2, nr_index_col |-> 3,
             index |-> WithUnit(ExioRegSec, <<"M.EUR", "M.EUR">>), columns |-> ExioRegSec,
             values |-> Zeros(2, 2)]
       ELSE IF ff.stem = "mrFinalDemand"
       THEN [sep |-> sep, nr_header_row |-> 2, nr_index_col |-> 3,
             index |-> WithUnit(IF yrows = "same" THEN ExioRegSec ELSE Reverse(ExioRegSec),
                                <<"M.EUR">>),
             columns |-> ExioRegCat, values |-> Zeros(2, 2)]
       ELSE IF ff.stem = "mrFDEmissions" /\ fdrows = "more"
       THEN [sep |-> sep, nr_header_row |-> 2, nr_index_col |-> ext_index_col,
             index |-> << ExioExtKey("CH4", ext_index_col), ExioExtKey("CO2", ext_index_col) >>,
             columns |-> ExioRegCat, values |-> Zeros(2, 2)]
       ELSE [sep |-> sep, nr_header_row |-> 2, nr_index_col |-> ext_index_col,
             index |-> << ExioExtKey("CO2", ext_index_col) >>,
             columns |-> IF ff.stem = "mrFDEmissions" THEN ExioRegCat ELSE ExioRegSec,
             values |-> Zeros(1, 2)]]

\* the files of ExioPool picked by the set of positions P, in the pool's order
Listing(P) == SelectSeq(ExioPool, LAMBDA ff : \E i \in P : ExioPool[i] = ff)

InitExio ==
    /\ pc = "exio_start"
    /\ \E P \in SUBSET (1..Len(ExioPool)), rev \in BOOLEAN, iszip \in BOOLEAN,
          yrows \in {"same", "reversed"}, ext_index_col \in 1..3,
          fdrows \in {"same", "more"}, sep \in {"tab", ","} :
         \/ /\ sep = "," => (~rev /\ yrows = "same" /\ ext_index_col = 3 /\ fdrows = "same")
            /\ fs = [adapter |-> "parse_exiobase1",
                     path |-> [root |-> [name |-> "exio", iszip |-> iszip],
                               filelist |-> IF rev THEN Reverse(Listing(P)) ELSE Listing(P)],
                     content |-> ExioContent(yrows, ext_index_col, fdrows, sep)]
         \/ /\ P = {} /\ ~rev /\ yrows = "same" /\ sep = "tab"
            /\ \E charact \in CharactVariants, nchar \in 0..Len(CharacFiles),
                  nemis \in {2, 46} :
                 fs = [adapter |-> "parse_exiobase2",
                       path |-> [root |-> [name |-> "exio", iszip |-> iszip],
                                 filelist |-> Exio2Files \o SubSeq(CharacFiles, 1, nchar)],
                       content |-> ExioContent(yrows, ext_index_col, fdrows, sep),
                       charact |-> charact,
                       workbooks |-> [w \in {<<[name |-> "exio", iszip |-> iszip], CharacFiles[1]>>,
                                             CharacElsewhere} |-> CharacWorkbook(nemis)]]
    /\ loc = ExioLoc0
    /\ meta_rec = <<>>
    /\ opened = <<>>
    /\ zips = {}
    /\ ret = NoRet

NextExio ==
    ExioLocate \/ ExioOpenZip \/ ExioRead \/ ExioCore \/ ExioExt \/ ExioBuild \/ ExioCharact

SpecExio == InitExio /\ [][NextExio]_vars

(***************************************************************************)
(* WIOD: the wiot workbook                                                 *)
(***************************************************************************)
wiot_meta == [col |-> 0, year |-> 0, iosystem |-> 2, unit |-> 3, end_row |-> 4]

wiot_header == [code |-> 0, sector_names |-> 1, region |-> 2, c_code |-> 3]

wiot_empty_top_rows == {0, 1}

wiot_marks_one_total == [last_interindsec |-> "c35", tot_facinp |-> {"r60"}]

wiot_marks == [last_interindsec |-> "c35", tot_facinp |-> {"r60", "r69"}]

\* max(index_wiot_headers) + 1
HeaderWidth == 4

\* sectors and final demand categories a synthetic workbook draws from
SecCodes == <<"AtB", "C", "15t16", "17t18">>

SecNames == <<"Agriculture", "Mining", "Food", "Textiles">>

FdCodes == <<"CONS_h", "GFCF", "INVEN">>

FdNames == <<"Households", "Capital formation", "Inventories">>

FdCCodes == <<"c37", "c41", "c42">>

\* c-codes of the sectors of a workbook with nsec sectors: the last one is the
\* marker of the end of the interindustry block
SecCCodes(nsec) == [s \in 1..nsec |-> IF s = nsec THEN "c35"
                                      ELSE <<"c1", "c2", "c3">>[s]]

\* A WIOD-shaped workbook: two top rows, four header rows and four header
\* columns, the interindustry block of R x nsec, nfd final demand columns per
\* region, a trailing total column, and one factor-input row per entry of
\* facinp_rows = <<[name, mark], ...>>.
WiotWorkbook(R, nsec, nfd, facinp_rows) ==
    LET nz == Len(R) * nsec
        ny == Len(R) * nfd
        ncols == HeaderWidth + nz + ny + 1
        nrows == 6 + nz + Len(facinp_rows)
        \* the four header entries (code, name, region, c_code) of data column q
        ColHead(q) ==
            IF q < nz
            THEN << SecCodes[(q % nsec) + 1], SecNames[(q % nsec) + 1],
                    R[(q \div nsec) + 1], SecCCodes(nsec)[(q % nsec) + 1] >>
            ELSE IF q < nz + ny
            THEN << FdCodes[((q - nz) % nfd) + 1], FdNames[((q - nz) % nfd) + 1],
                    R[((q - nz) \div nfd) + 1], FdCCodes[((q - nz) % nfd) + 1] >>
            ELSE << "TOT", "Total output", "TOT", "c62" >>
        RowHead(p) ==
            IF p < nz THEN ColHead(p)
            ELSE << NaN, facinp_rows[p - nz + 1].name, "TOT", facinp_rows[p - nz + 1].mark >>
        Cell(i, j) ==
            IF i = 0 /\ j = 0 THEN <<"Intercountry Input-Output Table for", "2009">>
            ELSE IF i = 2 /\ j = 0 THEN <<"(", "industry-by-industry", ")">>
            ELSE IF i = 3 /\ j = 0 THEN <<"(", "millions of US$", ")">>
            ELSE IF i < 2 \/ (i < 6 /\ j < HeaderWidth) THEN NaN
            ELSE IF i < 6 THEN ColHead(j - HeaderWidth)[i - 1]
            ELSE IF j < HeaderWidth THEN RowHead(i - 6)[j + 1]
            ELSE 100 * (i - 5) + (j - 3)
    IN [i \in 1..nrows |-> [j \in 1..ncols |-> Cell(i - 1, j - 1)]]

\* Series.str.replace('ROM', 'ROU') on the region labels
ReplaceROM(x) == IF x = "ROM" THEN "ROU" ELSE x

\* the position of the last row whose c_code cell is the marker; -1 if there is none
LastMarked(g, mark) ==
    LET hits == {r \in 0..(NRows(g) - 1) : At(g, r, wiot_header.c_code) = mark}
    IN IF hits = {} THEN -1 ELSE CHOOSE r \in hits : \A q \in hits : q <= r

\* remove meta data, empty rows, total column; region ROM -> ROU
DropWiot(raw) ==
    With(SelectIdx(raw, LAMBDA i : (i - 1) \notin wiot_empty_top_rows), LAMBDA kept :
      [i \in 1..Len(kept) |->
         [j \in 1..(NCols(raw) - 1) |->
            IF kept[i] - 1 < wiot_meta.end_row /\ j - 1 = wiot_meta.col THEN NaN
            ELSE IF i - 1 = wiot_header.region \/ j - 1 = wiot_header.region
            THEN ReplaceROM(raw[kept[i]][j])
            ELSE raw[kept[i]][j]]])

\* the rows below the interindustry block whose c_code is (total = TRUE) or is
\* not (total = FALSE) one of the marks of a total
FacinpRows(wiot_data, _lastZrow, total) ==
    SelectIdx(wiot_data,
              LAMBDA i : /\ i - 1 > _lastZrow
                         /\ (At(wiot_data, i - 1, wiot_header.c_code)
                               \in wiot_marks.tot_facinp) = total)

\* the four blocks of the cleaned sheet with their labels, and the lookups
SplitWiot(raw, wiot_data, _lastZrow, _lastZcol) ==
    LET nc == NCols(wiot_data)
        Z0 == ILoc(wiot_data, 0, _lastZrow + 1, 0, _lastZcol + 1)
        Y0 == ILoc(wiot_data, 0, _lastZrow + 1, _lastZcol + 1, nc)
    IN With([facrows |-> FacinpRows(wiot_data, _lastZrow, FALSE),
             totrows |-> FacinpRows(wiot_data, _lastZrow, TRUE),
             usa_rows |-> SelectIdx(wiot_data,
                            LAMBDA i : At(wiot_data, i - 1, wiot_header.region) = "USA"),
             usa_cols |-> SelectIdx(RowOf(Y0, 0),
                            LAMBDA j : At(Y0, wiot_header.region, j - 1) = "USA"),
             wiot_year |-> At(raw, wiot_meta.year, wiot_meta.col)[2],
             wiot_iosystem |-> At(raw, wiot_meta.iosystem, wiot_meta.col)[2],
             _wiot_unit |-> At(raw, wiot_meta.unit, wiot_meta.col)[2]],
         LAMBDA s :
      LET facinp == [i \in 1..Len(s.facrows) |-> wiot_data[s.facrows[i]]]
          F_fac0 == ILoc(facinp, 0, Len(s.facrows), 0, _lastZcol + 1)
          F_Y_fac0 == ILoc(facinp, 0, Len(s.facrows), _lastZcol + 1, nc)
          wiot_sector_lookup ==
              [i \in 1..Len(s.usa_rows) |->
                 [code |-> wiot_data[s.usa_rows[i]][wiot_header.code + 1],
                  sector_names |-> wiot_data[s.usa_rows[i]][wiot_header.sector_names + 1],
                  c_code |-> wiot_data[s.usa_rows[i]][wiot_header.c_code + 1]]]
          wiot_fd_lookup ==
              [j \in 1..Len(s.usa_cols) |->
                 [code |-> At(Y0, wiot_header.code, s.usa_cols[j] - 1),
                  sector_names |-> At(Y0, wiot_header.sector_names, s.usa_cols[j] - 1),
                  c_code |-> At(Y0, wiot_header.c_code, s.usa_cols[j] - 1)]]
          Zindex == [i \in 1..(_lastZrow + 1 - HeaderWidth) |->
                       << At(Z0, HeaderWidth + i - 1, wiot_header.region),
                          At(Z0, HeaderWidth + i - 1, wiot_header.code) >>]
          Ycolumns == [j \in 1..(nc - _lastZcol - 1) |->
                         << At(Y0, wiot_header.region, j - 1),
                            At(Y0, wiot_header.c_code, j - 1) >>]
          Findex == [i \in 1..Len(s.facrows) |->
                       << At(F_fac0, i - 1, wiot_header.sector_names) >>]
      IN [exc |-> "",
          Z |-> Table(Zindex, Zindex,
                      ILoc(Z0, HeaderWidth, _lastZrow + 1, HeaderWidth, _lastZcol + 1)),
          Y |-> Table(Zindex, Ycolumns,
                      ILoc(Y0, HeaderWidth, _lastZrow + 1, 0, nc - _lastZcol - 1)),
          F_fac |-> Table(Findex, Zindex,
                          ILoc(F_fac0, 0, Len(s.facrows), HeaderWidth, _lastZcol + 1)),
          F_Y_fac |-> Table(Findex, Ycolumns, F_Y_fac0),
          wiot_year |-> s.wiot_year, wiot_iosystem |-> s.wiot_iosystem,
          Z_unit |-> Table(Zindex, <<"unit">>, [i \in DOMAIN Zindex |-> <<s._wiot_unit>>]),
          F_fac_unit |-> Table(Findex, <<"unit">>, [i \in DOMAIN Findex |-> <<s._wiot_unit>>]),
          wiot_sector_lookup |-> wiot_sector_lookup, wiot_fd_lookup |-> wiot_fd_lookup,
          ll_countries |-> Unique([i \in DOMAIN Zindex |-> Zindex[i][1]]),
          dropped |-> <<"total_column">> \o
                      [i \in 1..Len(s.totrows) |->
                         At(wiot_data, s.totrows[i] - 1, wiot_header.c_code)]])

\* parse_wiod from the meta data to the four labelled blocks: what the code
\* computes from the sheet wiot_data, or the exception it stops with
ParseWiot(raw) ==
    With(DropWiot(raw), LAMBDA wiot_data :
      With(LastMarked(wiot_data, wiot_marks.last_interindsec), LAMBDA _lastZrow :
        IF _lastZrow < 0 THEN [exc |-> "IndexError"]
        ELSE SplitWiot(raw, wiot_data, _lastZrow, _lastZrow)))

(***************************************************************************)
(* WIOD: satellite accounts                                                *)
(***************************************************************************)
\* Python's order of the labels the raw files use (digits < upper < lower case)
StrOrder ==
    << "15t16", "17t18", "A", "AUS", "AtB", "B", "C", "CHN", "CN1", "CN2",
       "MEX", "MX1", "ROU", "RoW", "USA" >>

StrRank(x) == CHOOSE i \in DOMAIN StrOrder : StrOrder[i] = x

KeyLess(a, b) ==
    \/ StrRank(a[1]) < StrRank(b[1])
    \/ a[1] = b[1] /\ StrRank(a[2]) < StrRank(b[2])

\* the keys of the set S in lexicographic order
RECURSIVE SortKeys(_)
SortKeys(S) ==
    IF S = {} THEN <<>>
    ELSE LET m == CHOOSE a \in S : \A b \in S \ {a} : KeyLess(a, b)
         IN <<m>> \o SortKeys(S \ {m})

mt_sea == <<"EMP", "EMPE", "H_EMP", "H_EMPE">>

\* __get_WIOD_SEA_extension: sea is the SEA workbook found in root_path
\* ([present |-> FALSE] if there is none).  Returns the F table (the unit
\* table has its rows), or data |-> FALSE for (None, None).
get_WIOD_SEA_extension(sea, year) ==
    IF ~sea.present THEN [data |-> FALSE, read |-> <<>>, warned |-> TRUE]
    ELSE IF year \notin sea.years
    THEN [data |-> FALSE, read |-> <<sea.file>>, warned |-> TRUE]
    ELSE LET given == {<<sea.countries[i], sea.codes[j]>> :
                          i \in DOMAIN sea.countries, j \in DOMAIN sea.codes}
             \* RoW is added as a copy of USA set to zero
             row == IF "RoW" \in Range(sea.countries) THEN {}
                    ELSE IF "USA" \in Range(sea.countries)
                    THEN {<<"RoW", sea.codes[j]>> : j \in DOMAIN sea.codes}
                    ELSE {}
             columns == SortKeys(given \cup row)
             index == [i \in DOMAIN mt_sea |-> <<mt_sea[i]>>]
         IN [data |-> TRUE, read |-> <<sea.file>>, warned |-> FALSE,
             F |-> Table(index, columns, Zeros(Len(index), Len(columns))),
             unit |-> Table(index, <<"unit">>,
                            << <<"thousand persons">>, <<"thousand persons">>,
                               <<"mill hours">>, <<"mill hours">> >>)]

\* dl_envext_para, in the dict's order
dl_envext_para ==
    << [key |-> "AIR", name |-> "Air Emission Accounts", start |-> "AIR_", ext |-> ".xls", upper |-> TRUE],
       [key |-> "CO2", name |-> "CO2 emissions - per source", start |-> "CO2_", ext |-> ".xls", upper |-> TRUE],
       [key |-> "EM", name |-> "Emission relevant energy use", start |-> "EM_", ext |-> ".xls", upper |-> TRUE],
       [key |-> "EU", name |-> "Gross energy use", start |-> "EU_", ext |-> ".xls", upper |-> TRUE],
       [key |-> "lan", name |-> "land use", start |-> "lan_", ext |-> ".xls", upper |-> FALSE],
       [key |-> "mat", name |-> "material use", start |-> "mat_", ext |-> ".xls", upper |-> FALSE],
       [key |-> "wat", name |-> "water use", start |-> "wat_", ext |-> ".xls", upper |-> FALSE] >>

\* co.upper()
Upper(co) == IF co = "RoW" THEN "ROW" ELSE co

\* the row labels of a sheet that are dropped: 'total', 'secTOT', 'secQ'
EnvDroppedLabels == { <<"total">>, <<"sec", "TOT">>, <<"sec", "Q">> }

\* replace(to_replace='sec', value='', regex=True)
StripSec(label) == label[Len(label)]

ikc_hh == "FC_HH"

\* __get_WIOD_env_extension.  root_content is os.listdir(root_path): entries
\* [start, zip, files]; files are the workbooks inside the folder or archive.
\* The result says what was returned or raised (res), the workbooks opened on
\* the way, and whether an archive was opened and whether it was closed.
get_WIOD_env_extension(root_content, year, ll_co, para) ==
    LET ll_root_content == SelectSeq(root_content, LAMBDA ff : ff.start = para.start)
        pf_env == ll_root_content[1]
        ll_env_content == SelectSeq(pf_env.files, LAMBDA ff : ff.ext = para.ext)
        ll_pff_read(co) == SelectSeq(ll_env_content, LAMBDA ff : ff.co = Upper(co))
        Status(co) ==
            IF Len(ll_pff_read(co)) < 1 THEN "missing"
            ELSE IF Len(ll_pff_read(co)) > 1 THEN "multiple"
            ELSE IF year \notin ll_pff_read(co)[1].sheets THEN "nosheet"
            ELSE IF ikc_hh \notin {StripSec(l) : l \in Range(ll_pff_read(co)[1].rows)} THEN "nohh"
            ELSE "ok"
        bad == {k \in DOMAIN ll_co : Status(ll_co[k]) # "ok"}
        stop == IF bad = {} THEN Len(ll_co) + 1 ELSE CHOOSE k \in bad : \A q \in bad : k <= q
        read == LET upto == IF stop > Len(ll_co) THEN Len(ll_co) ELSE stop
                    idx == SelectIdx(SubSeq(ll_co, 1, upto),
                                     LAMBDA k : Status(ll_co[k]) \in {"ok", "nosheet", "nohh"})
                IN [i \in 1..Len(idx) |-> <<pf_env.name, ll_pff_read(ll_co[idx[i]])[1].co>>]
        \* the sector labels of a country's sheet, without totals and households
        Sectors(co) ==
            LET rows == ll_pff_read(co)[1].rows
                keep == SelectIdx(rows, LAMBDA i : /\ rows[i] \notin EnvDroppedLabels
                                                   /\ StripSec(rows[i]) # ikc_hh)
            IN [i \in 1..Len(keep) |-> StripSec(rows[keep[i]])]
        RECURSIVE Columns(_)
        Columns(k) == IF k > Len(ll_co) THEN <<>>
                      ELSE [i \in 1..Len(Sectors(ll_co[k])) |-> <<ll_co[k], Sectors(ll_co[k])[i]>>]
                           \o Columns(k + 1)
        index == [i \in DOMAIN pf_env.stressors |-> <<pf_env.stressors[i]>>]
        df_F == Table(index, Columns(1), Zeros(Len(index), Len(Columns(1))))
        df_F_Y == Table(index, [k \in DOMAIN ll_co |-> <<ll_co[k]>>],
                        [i \in DOMAIN index |-> [k \in DOMAIN ll_co |-> 1]])
    IN IF Len(ll_root_content) < 1
       THEN [res |-> "None", read |-> <<>>, zip_opened |-> FALSE, zip_closed |-> FALSE]
       ELSE IF Len(ll_root_content) > 1
       THEN [res |-> "ParserError", read |-> <<>>, zip_opened |-> FALSE, zip_closed |-> FALSE]
       ELSE IF stop <= Len(ll_co)
       THEN [res |-> CASE Status(ll_co[stop]) = "nosheet" -> "None"
                       [] Status(ll_co[stop]) = "nohh" -> "KeyError"
                       [] OTHER -> "ParserError",
             read |-> read, zip_opened |-> pf_env.zip, zip_closed |-> FALSE]
       ELSE [res |-> "ok", read |-> read, zip_opened |-> pf_env.zip, zip_closed |-> pf_env.zip,
             pf_env |-> pf_env.name,
             F |-> df_F, F_Y |-> df_F_Y,
             unit |-> Table(index, <<"unit">>, [i \in DOMAIN index |-> <<pf_env.unit>>])]

(***************************************************************************)
(* WIOD: parse_wiod                                                        *)
(***************************************************************************)
WiodLoc0 ==
    [wiot_file |-> "", root_path |-> "", k |-> 1, ext |-> <<>>,
     Z |-> Table(<<>>, <<>>, <<>>), Y |-> Table(<<>>, <<>>, <<>>),
     Z_unit |-> Table(<<>>, <<>>, <<>>), F_Y_columns |-> <<>>,
     wiot_year |-> "", wiot_iosystem |-> "", ll_countries |-> <<>>,
     wiot_sector_lookup |-> <<>>, wiot_fd_lookup |-> <<>>, dropped |-> <<>>]

\* pd.read_excel(wiot_file, sheet_name=0, header=None): the sheet of the workbook
read_excel(wiot) == WiotWorkbook(wiot.R, wiot.nsec, wiot.nfd, wiot.facinp_rows)

\* determine which wiod file to be parsed
WiodLocate ==
    /\ pc = "wiod_start"
    /\ LET p == fs.path
           wiot_file_list == SelectSeq(p.listing, LAMBDA fl : fl.year = fs.year)
           bad == IF ~p.isdir THEN ~p.exists
                  ELSE fs.year = "" \/ Len(wiot_file_list) # 1
       IN IF bad
          THEN /\ ret' = Raise("ParserError")
               /\ pc' = "done"
               /\ UNCHANGED loc
          ELSE /\ loc' = [WiodLoc0 EXCEPT
                            !.wiot_file = IF p.isdir THEN wiot_file_list[1].name ELSE p.name,
                            !.root_path = p.root]
               /\ pc' = "wiod_read"
               /\ UNCHANGED ret
    /\ meta_rec' = <<>>
    /\ UNCHANGED <<fs, opened, zips>>

\* read the workbook, split it into Z, Y and the factor inputs
WiodReadWiot ==
    /\ pc = "wiod_read"
    /\ \E w \in {ParseWiot(read_excel(fs.wiot))} :
          /\ opened' = Append(opened, loc.wiot_file)
          /\ IF w.exc # ""
             THEN /\ ret' = Raise(w.exc)
                  /\ pc' = "done"
                  /\ meta_rec' = _add_fileio(meta_rec, loc.wiot_file)
                  /\ UNCHANGED loc
             ELSE /\ meta_rec' = change_meta(_add_fileio(meta_rec, loc.wiot_file),
                                             "system", w.wiot_iosystem)
                  /\ loc' = [loc EXCEPT
                               !.Z = w.Z, !.Y = w.Y, !.Z_unit = w.Z_unit,
                               !.F_Y_columns = w.F_Y_fac.columns,
                               !.wiot_year = w.wiot_year, !.wiot_iosystem = w.wiot_iosystem,
                               !.ll_countries = w.ll_countries,
                               !.wiot_sector_lookup = w.wiot_sector_lookup,
                               !.wiot_fd_lookup = w.wiot_fd_lookup,
                               !.dropped = w.dropped,
                               !.ext = << [tt |-> "factor_inputs", F |-> w.F_fac,
                                           F_Y |-> w.F_Y_fac, unit |-> w.F_fac_unit,
                                           name |-> "factor input"] >>]
                  /\ pc' = "wiod_sea"
                  /\ UNCHANGED ret
    /\ UNCHANGED <<fs, zips>>

\* SEA extension
WiodSEA ==
    /\ pc = "wiod_sea"
    /\ \E sea \in {get_WIOD_SEA_extension(fs.sea, loc.wiot_year)} :
          /\ opened' = opened \o sea.read
          /\ IF sea.data
             THEN /\ loc' = [loc EXCEPT !.ext = Append(loc.ext,
                               [tt |-> "SEA", F |-> sea.F,
                                F_Y |-> Table(sea.F.index, loc.F_Y_columns,
                                              Zeros(Len(sea.F.index), Len(loc.F_Y_columns))),
                                unit |-> sea.unit, name |-> "SEA"])]
                  /\ meta_rec' = _add_fileio(meta_rec, loc.root_path)
             ELSE UNCHANGED <<loc, meta_rec>>
    /\ pc' = "wiod_env"
    /\ UNCHANGED <<fs, zips, ret>>

_ss_F_Y_pressure_column == "c37"

\* the household column of an extension laid out over the final demand columns:
\* _F_Y_template.append(_F_Y), fillna(0), _F_Y[ll_countries]
HouseholdF_Y(F_Y, template_columns, ll_countries) ==
    LET hh == [k \in DOMAIN F_Y.columns |-> <<F_Y.columns[k][1], _ss_F_Y_pressure_column>>]
        extra == SelectIdx(hh, LAMBDA k : hh[k] \notin Range(template_columns))
        all == template_columns \o [i \in 1..Len(extra) |-> hh[extra[i]]]
        RECURSIVE ByCountry(_)
        ByCountry(k) ==
            IF k > Len(ll_countries) THEN <<>>
            ELSE SelectSeq(all, LAMBDA c : c[1] = ll_countries[k]) \o ByCountry(k + 1)
        columns == ByCountry(1)
        Val(i, c) == IF \E k \in DOMAIN hh : hh[k] = c
                     THEN F_Y.values[i][CHOOSE k \in DOMAIN hh : hh[k] = c]
                     ELSE 0
    IN Table(F_Y.index, columns,
             [i \in DOMAIN F_Y.index |-> [j \in DOMAIN columns |-> Val(i, columns[j])]])

\* one turn of the loop over dl_envext_para
WiodEnvExt ==
    /\ pc = "wiod_env"
    /\ loc.k <= Len(dl_envext_para)
    /\ \E para \in {dl_envext_para[loc.k]} :
       \E _dl_ex \in {get_WIOD_env_extension(fs.root_content, loc.wiot_year,
                                              loc.ll_countries, para)} :
          /\ opened' = opened \o _dl_ex.read
          /\ zips' = IF _dl_ex.zip_opened /\ ~_dl_ex.zip_closed
                     THEN zips \cup {para.start} ELSE zips
          /\ IF _dl_ex.res = "ok"
             THEN /\ loc' = [loc EXCEPT !.k = loc.k + 1, !.ext = Append(loc.ext,
                               [tt |-> para.key, F |-> _dl_ex.F,
                                F_Y |-> HouseholdF_Y(_dl_ex.F_Y, loc.F_Y_columns, loc.ll_countries),
                                unit |-> _dl_ex.unit, name |-> para.name])]
                  /\ meta_rec' = _add_fileio(meta_rec, loc.root_path)
                  /\ UNCHANGED <<pc, ret>>
             ELSE IF _dl_ex.res = "None"
             THEN /\ loc' = [loc EXCEPT !.k = loc.k + 1]
                  /\ UNCHANGED <<pc, ret, meta_rec>>
             ELSE /\ ret' = Raise(_dl_ex.res)
                  /\ pc' = "done"
                  /\ UNCHANGED <<loc, meta_rec>>
    /\ UNCHANGED fs

\* a renaming dict as a set of <<old, new>> pairs; Index.rename maps every
\* label of every level that is a key of the dict
RenameLabel(dd, x) == IF \E e \in dd : e[1] = x THEN (CHOOSE e \in dd : e[1] = x)[2] ELSE x

RenameKeys(dd, keys) == [i \in DOMAIN keys |-> [l \in DOMAIN keys[i] |-> RenameLabel(dd, keys[i][l])]]

\* w[0].lower() for the spellings of the names parameter the model draws
FirstLower(w) ==
    CASE w = "isic" -> "i" [] w = "c_codes" -> "c" [] w = "full" -> "f" [] w = "Full" -> "f"
      [] OTHER -> "x"

\* wiot_sector_lookup.<column>.to_dict() for the sector names asked for
dd_sec_rename(lookup, ll_name) ==
    {<<lookup[i].code,
       IF ll_name = "c" THEN lookup[i].c_code
       ELSE IF ll_name = "f" THEN lookup[i].sector_names
       ELSE lookup[i].code>> : i \in DOMAIN lookup}

\* wiot_fd_lookup.<column>.to_dict(); no dict is bound for a letter other than c, i, f
dd_fd_rename(lookup, ll_name) ==
    {<<lookup[i].c_code,
       IF ll_name = "f" THEN lookup[i].sector_names ELSE lookup[i].c_code>> : i \in DOMAIN lookup}

\* Build system, replace sector/final demand category names
WiodBuild ==
    /\ pc = "wiod_env"
    /\ loc.k > Len(dl_envext_para)
    /\ LET names == IF Len(fs.names) = 1 THEN <<fs.names[1], fs.names[1]>> ELSE fs.names
           ll_names == <<FirstLower(names[1]), FirstLower(names[2])>>
           sec == dd_sec_rename(loc.wiot_sector_lookup, ll_names[1])
           fd == dd_fd_rename(loc.wiot_fd_lookup, ll_names[2])
           Z == [loc.Z EXCEPT !.index = RenameKeys(sec, loc.Z.index),
                              !.columns = RenameKeys(sec, loc.Z.columns)]
           Y == [loc.Y EXCEPT !.index = RenameKeys(sec, loc.Y.index),
                              !.columns = RenameKeys(fd, loc.Y.columns)]
           ext == [e \in DOMAIN loc.ext |->
                     [loc.ext[e] EXCEPT !.F = [@ EXCEPT !.columns = RenameKeys(sec, @)],
                                        !.F_Y = [@ EXCEPT !.columns = RenameKeys(fd, @)]]]
       IN IF ll_names[2] \notin {"c", "i", "f"}
          THEN ret' = Raise("UnboundLocalError")
          ELSE ret' = IOSystem(<< [tt |-> "Z", raw |-> Z], [tt |-> "Y", raw |-> Y],
                                  [tt |-> "unit", raw |-> loc.Z_unit] >>,
                               ext, [version |-> <<>>, year |-> 0])
    /\ pc' = "done"
    /\ UNCHANGED <<fs, loc, meta_rec, opened, zips>>

\* an archive object nothing refers to any more is closed when it is collected
Finalize ==
    /\ pc = "done"
    /\ zips # {}
    /\ zips' = {}
    /\ UNCHANGED <<pc, fs, loc, meta_rec, opened, ret>>

(***************************************************************************)
(* WIOD raw locations                                                      *)
(***************************************************************************)
MaxSec == 2

MaxFd == 2

FacinpRow(mark) ==
    [mark |-> mark,
     name |-> CASE mark = "r60" -> "Total intermediate consumption"
                [] mark = "r64" -> "Value added at basic prices"
                [] mark = "r69" -> "Output at basic prices"
                [] OTHER -> "Taxes less subsidies"]

FacinpVariants ==
    { <<FacinpRow("r60"), FacinpRow("r64"), FacinpRow("r69")>>,
      <<FacinpRow("r64"), FacinpRow("r60"), FacinpRow("r69")>>,
      <<FacinpRow("r99"), FacinpRow("r64")>> }

WiodRegionVariants == { <<"USA", "ROM">>, <<"AUS", "USA">>, <<"USA">> }

WiodPaths ==
    { [isdir |-> TRUE, root |-> "wiod", name |-> "wiod", exists |-> TRUE,
       listing |-> << [name |-> "wiot09_row_sep12.xlsx", year |-> "2009"] >>],
      [isdir |-> TRUE, root |-> "wiod", name |-> "wiod", exists |-> TRUE,
       listing |-> << [name |-> "wiot09_row_sep12.xlsx", year |-> "2009"],
                      [name |-> "wiot09_row_apr12.xlsx", year |-> "2009"] >>],
      [isdir |-> FALSE, root |-> "wiod", name |-> "wiot09_row_sep12.xlsx", exists |-> TRUE,
       listing |-> <<>>],
      [isdir |-> FALSE, root |-> "wiod", name |-> "wiot05.xlsx", exists |-> FALSE,
       listing |-> <<>>] }

\* a country workbook of an environmental extension
EnvFile(co, sheets, rows) == [co |-> co, ext |-> ".xls", sheets |-> sheets, rows |-> rows]

EnvRows(nsec, reversed) ==
    LET secs == [s \in 1..nsec |-> <<"sec", SecCodes[s]>>]
    IN (IF reversed THEN Reverse(secs) ELSE secs)
       \o << <<"sec", "TOT">>, <<"FC_HH">>, <<"sec", "Q">>, <<"total">> >>

\* the workbooks of the AIR extension for the countries R: kind says what is
\* wrong with them, if anything
EnvFiles(R, nsec, kind) ==
    LET cos == [i \in DOMAIN R |-> Upper(ReplaceROM(R[i]))]
        all == [i \in DOMAIN cos |->
                  EnvFile(cos[i], IF kind = "nosheet" /\ i = Len(cos) THEN {"2008"} ELSE {"2009"},
                          EnvRows(nsec, kind = "reversed"))]
    IN IF kind = "missing" THEN SubSeq(all, 1, Len(all) - 1) ELSE all

EnvKinds == {"same", "reversed", "nosheet", "missing"}

\* os.listdir(root_path) as far as the extensions go: nothing, the archive,
\* the extracted folder, or both
RootContents(R, nsec) ==
    LET E(zip, kind) == [start |-> "AIR_", name |-> IF zip THEN "AIR_may12.zip" ELSE "AIR_may12",
                         zip |-> zip, files |-> EnvFiles(R, nsec, kind),
                         stressors |-> <<"CO2", "CH4">>, unit |-> "Gg"]
    IN { <<>> } \cup { <<E(zip, kind)>> : zip \in BOOLEAN, kind \in EnvKinds }
       \cup { <<E(TRUE, "same"), E(FALSE, "same")>> }

SeaVariants(R, nsec) ==
    { [present |-> FALSE],
      [present |-> TRUE, file |-> "WIOD_SEA_July14.xlsx", years |-> {"2009"},
       countries |-> [i \in DOMAIN R |-> ReplaceROM(R[i])],
       codes |-> [s \in 1..nsec |-> SecCodes[s]]],
      [present |-> TRUE, file |-> "WIOD_SEA_July14.xlsx", years |-> {"2008"},
       countries |-> [i \in DOMAIN R |-> ReplaceROM(R[i])],
       codes |-> [s \in 1..nsec |-> SecCodes[s]]] }

NamesVariants == { <<"isic", "c_codes">>, <<"full">>, <<"isic", "names">>, <<"names", "full">> }

InitWiod ==
    /\ pc = "wiod_start"
    /\ \E path \in WiodPaths, year \in {"", "2009"}, R \in WiodRegionVariants,
          nsec \in 1..MaxSec, nfd \in 1..MaxFd, facinp_rows \in FacinpVariants,
          names \in NamesVariants :
       \E root_content \in RootContents(R, nsec), sea \in SeaVariants(R, nsec) :
         fs = [adapter |-> "parse_wiod", path |-> path, year |-> year, names |-> names,
               wiot |-> [R |-> R, nsec |-> nsec, nfd |-> nfd, facinp_rows |-> facinp_rows],
               root_content |-> root_content, sea |-> sea]
    /\ loc = WiodLoc0
    /\ meta_rec = <<>>
    /\ opened = <<>>
    /\ zips = {}
    /\ ret = NoRet

NextWiod == WiodLocate \/ WiodReadWiot \/ WiodSEA \/ WiodEnvExt \/ WiodBuild \/ Finalize

SpecWiod == InitWiod /\ [][NextWiod]_vars

(***************************************************************************)
(* OECD-ICIO: parse_oecd                                                   *)
(***************************************************************************)
\* A label of the csv file is the sequence of the parts its text has between
\* the underscores: "AUS_A" is <<"AUS", "A">>, "TOTAL" is <<"TOTAL">>.
\* the file names of one release only
oecd_file_starts_2016 == <<"ICIO2016_">>

oecd_file_starts == <<"ICIO2016_", "ICIO2018_">>

oecd_totals_col == { <<"TOTAL">> }

oecd_totals_row == { <<"OUT">>, <<"OUTPUT">> }

\* filter(regex='VALU|TAX', axis=0)
IsFactorInput(label) == \E i \in DOMAIN label : label[i] \in {"VALU", "TAXSUB"}

\* filter(regex='HFCE|NPISH|NPS|GGFC|GFCF|INVNT|INV|DIRP|FD|P33|DISC', axis=1)
IsFinalDemand(label) ==
    \E i \in DOMAIN label :
       label[i] \in {"HFCE", "NPISH", "GGFC", "GFCF", "INVNT", "DIRP", "P33", "DISC"}

\* re.match(r'CN\d', a), re.match(r'MX\d', a)
MatchSub(prefix, a) ==
    \/ prefix = "CN" /\ a \in {"CN1", "CN2"}
    \/ prefix = "MX" /\ a \in {"MX1"}

\* re.findall(r'\d\d\d\d', oecd_file_name)
FindYears(fl) ==
    (IF fl.start \in Range(oecd_file_starts)
     THEN << IF fl.start = "ICIO2016_" THEN "2016" ELSE "2018" >> ELSE <<>>)
    \o (IF fl.year = "" THEN <<>> ELSE <<fl.year>>)

\* a cell without a value (numpy.nan)
NoValue == -1

\* skipna: a missing cell counts as nothing in a sum
Num(v) == IF v = NoValue THEN 0 ELSE v

\* the sum of two cells
AddNa(a, b) == IF a = NoValue \/ b = NoValue THEN NoValue ELSE a + b

\* DataFrame.sum().sum() of a table that may have missing cells
TableSumNa(t) ==
    SeqSum([i \in 1..Len(t.index) |-> SeqSum([j \in 1..Len(t.columns) |-> Num(t.values[i][j])])])

\* the regions of a sequence of (region, sector) keys, first occurrences in order
RegionsOf(keys) == Unique([i \in DOMAIN keys |-> keys[i][1]])

\* the position of label x in the sequence s
PosOf(s, x) == CHOOSE i \in DOMAIN s : s[i] = x

Transpose(t) ==
    Table(t.columns, t.index,
          [j \in DOMAIN t.columns |-> [i \in DOMAIN t.index |-> t.values[i][j]]])

\* the split without the fix of the reversed labels of the 2016 release
SplitOecd_unreversed(raw) ==
    With([zrows |-> SortKeys({l \in Range(raw.index) :
                                l \notin oecd_totals_row /\ ~IsFactorInput(l)}),
          zcols |-> SortKeys({l \in Range(raw.columns) :
                                l \notin oecd_totals_col /\ ~IsFinalDemand(l)}),
          frows |-> SelectSeq(raw.index,
                              LAMBDA l : l \notin oecd_totals_row /\ IsFactorInput(l)),
          ycols |-> SelectSeq(raw.columns,
                              LAMBDA l : l \notin oecd_totals_col /\ IsFinalDemand(l))],
      LAMBDA s :
        With(RegionsOf(s.zrows), LAMBDA regions :
          LET Cells(rs, cs) ==
                  [i \in DOMAIN rs |-> [j \in DOMAIN cs |->
                     raw.values[PosOf(raw.index, rs[i])][PosOf(raw.columns, cs[j])]]]
              Entries(orig_idx) ==
                  IF Len(orig_idx) = 1 THEN <<"ALL", orig_idx[1]>> ELSE orig_idx
              _midx == [j \in DOMAIN s.ycols |->
                          IF Entries(s.ycols[j])[2] \in Range(regions)
                          THEN Entries(s.ycols[j])
                          ELSE Entries(s.ycols[j])]
          IN IF Len(s.zcols) # Len(s.zrows) THEN [exc |-> "ValueError"]
             ELSE [exc |-> "",
                   Z |-> Table(s.zrows, s.zrows, Cells(s.zrows, s.zcols)),
                   Y |-> Table(s.zrows, _midx, Cells(s.zrows, s.ycols)),
                   F_factor_input |-> Table(s.frows, s.zrows, Cells(s.frows, s.zcols)),
                   F_Y_factor_input |-> Table(s.frows, _midx, Cells(s.frows, s.ycols)),
                   core_co_names |-> regions,
                   dropped |-> SelectSeq(raw.columns, LAMBDA l : l \in oecd_totals_col)
                               \o SelectSeq(raw.index, LAMBDA l : l \in oecd_totals_row)]))

\* lines 1559-1601: drop the totals, split the sheet into Z, Y and the factor
\* inputs, label them.  Index.difference returns the labels sorted; filter
\* keeps the order of the file.
SplitOecd(raw) ==
    With([zrows |-> SortKeys({l \in Range(raw.index) :
                                l \notin oecd_totals_row /\ ~IsFactorInput(l)}),
          zcols |-> SortKeys({l \in Range(raw.columns) :
                                l \notin oecd_totals_col /\ ~IsFinalDemand(l)}),
          frows |-> SelectSeq(raw.index,
                              LAMBDA l : l \notin oecd_totals_row /\ IsFactorInput(l)),
          ycols |-> SelectSeq(raw.columns,
                              LAMBDA l : l \notin oecd_totals_col /\ IsFinalDemand(l))],
      LAMBDA s :
        With(RegionsOf(s.zrows), LAMBDA regions :
          LET Cells(rs, cs) ==
                  [i \in DOMAIN rs |-> [j \in DOMAIN cs |->
                     raw.values[PosOf(raw.index, rs[i])][PosOf(raw.columns, cs[j])]]]
              Entries(orig_idx) ==
                  IF Len(orig_idx) = 1 THEN <<"ALL", orig_idx[1]>> ELSE orig_idx
              _midx == [j \in DOMAIN s.ycols |->
                          IF Entries(s.ycols[j])[2] \in Range(regions)
                          THEN << Entries(s.ycols[j])[2], Entries(s.ycols[j])[1] >>
                          ELSE Entries(s.ycols[j])]
          IN IF Len(s.zcols) # Len(s.zrows) THEN [exc |-> "ValueError"]
             ELSE [exc |-> "",
                   Z |-> Table(s.zrows, s.zrows, Cells(s.zrows, s.zcols)),
                   Y |-> Table(s.zrows, _midx, Cells(s.zrows, s.ycols)),
                   F_factor_input |-> Table(s.frows, s.zrows, Cells(s.frows, s.zcols)),
                   F_Y_factor_input |-> Table(s.frows, _midx, Cells(s.frows, s.ycols)),
                   core_co_names |-> regions,
                   dropped |-> SelectSeq(raw.columns, LAMBDA l : l \in oecd_totals_col)
                               \o SelectSeq(raw.index, LAMBDA l : l \in oecd_totals_row)]))

\* T.loc[co_name, :] = T.loc[[co_name], :] + T.loc[agg_list, :].sum(level='sector', axis=0)
\* T = T.drop(agg_list, axis=0)
\* The sum is joined to the rows of co_name on the sector; a sector none of
\* the rows of agg_list has leaves no value; the assignment is aligned to the
\* rows co_name already has.
AggregateRows(T, co_name, agg_list) ==
    With(SelectIdx(T.index, LAMBDA i : T.index[i][1] \notin Range(agg_list)), LAMBDA keep :
      LET Sub(sector) == {r \in DOMAIN T.index :
                            T.index[r][1] \in Range(agg_list) /\ T.index[r][2] = sector}
          SumOf(sector, j) ==
              IF Sub(sector) = {} THEN NoValue
              ELSE SeqSum([r \in DOMAIN T.index |->
                             IF r \in Sub(sector) THEN Num(T.values[r][j]) ELSE 0])
          vals == [i \in DOMAIN T.index |->
                     IF T.index[i][1] = co_name
                     THEN [j \in DOMAIN T.columns |->
                             AddNa(T.values[i][j], SumOf(T.index[i][2], j))]
                     ELSE T.values[i]]
      IN Table([i \in DOMAIN keep |-> T.index[keep[i]]], T.columns,
               [i \in DOMAIN keep |-> vals[keep[i]]]))

\* the same along the columns (axis=1)
AggregateCols(T, co_name, agg_list) ==
    With(Transpose(T), LAMBDA Tt : Transpose(AggregateRows(Tt, co_name, agg_list)))

\* agg_corr, in the dict's order: the target and the pattern of its sub-regions
agg_corr == << [co_name |-> "CHN", prefix |-> "CN"], [co_name |-> "MEX", prefix |-> "MX"] >>

OecdLoc0 ==
    [oecd_file |-> [start |-> "", year |-> "", ext |-> ""], oecd_version |-> "",
     oecd_year |-> "", k |-> 1, core_co_names |-> <<>>, dropped |-> <<>>,
     Z_split |-> Table(<<>>, <<>>, <<>>),
     Z |-> Table(<<>>, <<>>, <<>>), Y |-> Table(<<>>, <<>>, <<>>),
     F_factor_input |-> Table(<<>>, <<>>, <<>>),
     F_Y_factor_input |-> Table(<<>>, <<>>, <<>>)]

\* determine which oecd file to be parsed
OecdLocate ==
    /\ pc = "oecd_start"
    /\ LET p == fs.path
           oecd_file_list ==
               SelectSeq(p.listing,
                         LAMBDA fl : /\ fl.ext \in {".csv", ".CSV", ".zip"}
                                     /\ fl.start \in Range(oecd_file_starts)
                                     /\ fl.year = fs.year)
           unique_file_data == {oecd_file_list[i].start : i \in DOMAIN oecd_file_list}
           exc == IF ~p.isdir THEN ""
                  ELSE IF fs.year = "" THEN "ParserError"
                  ELSE IF Len(oecd_file_list) > 1 /\ Cardinality(unique_file_data) > 1
                  THEN "ParserError"
                  ELSE IF Len(oecd_file_list) = 0 THEN "FileNotFoundError"
                  ELSE ""
           oecd_file == IF p.isdir THEN oecd_file_list[1] ELSE p.file
       IN IF exc # ""
          THEN /\ ret' = Raise(exc)
               /\ pc' = "done"
               /\ UNCHANGED loc
          ELSE /\ loc' = [OecdLoc0 EXCEPT
                            !.oecd_file = oecd_file,
                            !.oecd_version = IF Len(FindYears(oecd_file)) >= 2
                                             THEN <<"v", FindYears(oecd_file)[1]>>
                                             ELSE <<"n/a">>,
                            !.oecd_year = IF Len(FindYears(oecd_file)) >= 2
                                          THEN FindYears(oecd_file)[2] ELSE "n/a"]
               /\ pc' = "oecd_read"
               /\ UNCHANGED ret
    /\ meta_rec' = <<>>
    /\ UNCHANGED <<fs, opened, zips>>

\* read the file, drop the totals, split and label the tables
OecdRead ==
    /\ pc = "oecd_read"
    /\ IF ~fs.path.isdir /\ ~fs.path.exists
       THEN /\ ret' = Raise("FileNotFoundError")
            /\ pc' = "done"
            /\ UNCHANGED <<loc, meta_rec, opened>>
       ELSE \E o \in {SplitOecd(fs.csv)} :
              /\ opened' = Append(opened, loc.oecd_file)
              /\ meta_rec' = _add_fileio(meta_rec, loc.oecd_file)
              /\ IF o.exc # ""
                 THEN /\ ret' = Raise(o.exc)
                      /\ pc' = "done"
                      /\ UNCHANGED loc
                 ELSE /\ loc' = [loc EXCEPT
                                   !.Z = o.Z, !.Z_split = o.Z, !.Y = o.Y,
                                   !.F_factor_input = o.F_factor_input,
                                   !.F_Y_factor_input = o.F_Y_factor_input,
                                   !.core_co_names = o.core_co_names,
                                   !.dropped = o.dropped, !.k = 1]
                      /\ pc' = "oecd_agg"
                      /\ UNCHANGED ret
    /\ UNCHANGED <<fs, zips>>

\* one turn of the loop over agg_corr: aggregation of CN and MX subregions
OecdAggregate ==
    /\ pc = "oecd_agg"
    /\ loc.k <= Len(agg_corr)
    /\ \E co_name \in {agg_corr[loc.k].co_name} :
       \E agg_list \in {SelectSeq(loc.core_co_names,
                                  LAMBDA a : MatchSub(agg_corr[loc.k].prefix, a))} :
         IF co_name \notin Range(loc.core_co_names) \/ Len(agg_list) = 0
         THEN loc' = [loc EXCEPT !.k = loc.k + 1]
         ELSE \E Zr \in {AggregateRows(loc.Z, co_name, agg_list)} :
                loc' = [loc EXCEPT
                          !.k = loc.k + 1,
                          !.Z = AggregateCols(Zr, co_name, agg_list),
                          !.Y = AggregateRows(loc.Y, co_name, agg_list),
                          !.F_factor_input =
                              AggregateCols(loc.F_factor_input, co_name, agg_list)]
    /\ UNCHANGED <<pc, fs, meta_rec, opened, zips, ret>>

\* unit df generation at the end, the IOSystem
OecdBuild ==
    /\ pc = "oecd_agg"
    /\ loc.k > Len(agg_corr)
    /\ ret' = IOSystem(<< [tt |-> "Z", raw |-> loc.Z], [tt |-> "Y", raw |-> loc.Y],
                          [tt |-> "unit",
                           raw |-> Table(loc.Z.index, <<"unit">>,
                                         [i \in DOMAIN loc.Z.index |-> <<"Million USD">>])] >>,
                       << [tt |-> "factor_inputs", F |-> loc.F_factor_input,
                           F_Y |-> loc.F_Y_factor_input,
                           unit |-> Table(loc.F_factor_input.index, <<"unit">>,
                                          [i \in DOMAIN loc.F_factor_input.index |->
                                             <<"Million USD">>]),
                           name |-> "factor_inputs"] >>,
                       [version |-> loc.oecd_version, year |-> loc.oecd_year])
    /\ pc' = "done"
    /\ UNCHANGED <<fs, loc, meta_rec, opened, zips>>

(***************************************************************************)
(* OECD raw locations                                                      *)
(***************************************************************************)
OecdSecCodes == <<"A", "B", "C">>

\* the regions of a table and the number of sectors each has, in file order
OecdRegionVariants(nsec) ==
    { << <<"AUS", nsec>>, <<"MEX", nsec>>, <<"CHN", nsec>>, <<"CN1", nsec>>, <<"MX1", nsec>> >>,
      << <<"CHN", nsec>>, <<"AUS", nsec>>, <<"CN2", nsec>>, <<"CN1", nsec>> >>,
      << <<"AUS", nsec>>, <<"CN1", nsec>> >>,
      << <<"MEX", nsec>>, <<"AUS", nsec>> >>,
      << <<"CHN", 1>>, <<"CN1", nsec>> >>,
      << <<"CHN", nsec>>, <<"CN1", 1>> >> }

\* the csv file of a release: the interindustry rows, value added, output;
\* the interindustry columns, a final demand column per region that is not a
\* sub-region, the discrepancy and the total
OecdCsv(regs, release) ==
    LET RECURSIVE Keys2(_)
        Keys2(k) == IF k > Len(regs) THEN <<>>
                    ELSE [s \in 1..regs[k][2] |-> <<regs[k][1], OecdSecCodes[s]>>]
                         \o Keys2(k + 1)
        cos == SelectSeq([k \in DOMAIN regs |-> regs[k][1]],
                         LAMBDA a : ~MatchSub("CN", a) /\ ~MatchSub("MX", a))
        index == Keys2(1) \o << <<"VALU">> >>
                 \o (IF release = "2016" THEN << <<"OUT">> >> ELSE << <<"OUTPUT">> >>)
        columns == Keys2(1)
                   \o [k \in DOMAIN cos |-> IF release = "2016" THEN <<"HFCE", cos[k]>>
                                            ELSE <<cos[k], "HFCE">>]
                   \o << <<"DISC">>, <<"TOTAL">> >>
    IN With([index |-> index, columns |-> columns], LAMBDA l :
         Table(l.index, l.columns,
               [i \in DOMAIN l.index |-> [j \in DOMAIN l.columns |-> 100 * i + j]]))

OecdFile(start, year, ext) == [start |-> start, year |-> year, ext |-> ext]

OecdPaths ==
    { [isdir |-> FALSE, exists |-> TRUE, file |-> OecdFile("ICIO2018_", "2010", ".csv"),
       listing |-> <<>>],
      [isdir |-> FALSE, exists |-> TRUE, file |-> OecdFile("oecd", "", ".csv"),
       listing |-> <<>>],
      [isdir |-> FALSE, exists |-> FALSE, file |-> OecdFile("ICIO2016_", "2010", ".zip"),
       listing |-> <<>>],
      [isdir |-> TRUE, exists |-> TRUE, file |-> OecdFile("", "", ""),
       listing |-> << OecdFile("ICIO2016_", "2010", ".zip"),
                      OecdFile("ICIO2016_", "2010", ".csv"),
                      OecdFile("ICIO2016_", "2011", ".csv") >>],
      [isdir |-> TRUE, exists |-> TRUE, file |-> OecdFile("", "", ""),
       listing |-> << OecdFile("ICIO2016_", "2010", ".csv"),
                      OecdFile("ICIO2018_", "2010", ".csv") >>],
      [isdir |-> TRUE, exists |-> TRUE, file |-> OecdFile("", "", ""),
       listing |-> << OecdFile("ICIO2018_", "2011", ".csv"),
                      OecdFile("ICIO2018_", "2010", ".txt") >>] }

InitOecd ==
    /\ pc = "oecd_start"
    /\ \E path \in OecdPaths, year \in {"", "2010"}, nsec \in 1..MaxSec,
          release \in {"2016", "2018"} :
       \E regs \in OecdRegionVariants(nsec) :
         fs = [adapter |-> "parse_oecd", path |-> path, year |-> year,
               csv |-> OecdCsv(regs, release)]
    /\ loc = OecdLoc0
    /\ meta_rec = <<>>
    /\ opened = <<>>
    /\ zips = {}
    /\ ret = NoRet

NextOecd == OecdLocate \/ OecdRead \/ OecdAggregate \/ OecdBuild

SpecOecd == InitOecd /\ [][NextOecd]_vars

(***************************************************************************)
(* Eora26: parse_eora26                                                    *)
(***************************************************************************)
row_name == "ROW"

\* eora_files, in the dict's order: the key and, for the data files, the tail
\* of 'Eora26_{year}_{price}_<tail>.txt'
eora_files ==
    << [key |-> "Z", tail |-> "T"], [key |-> "Q", tail |-> "Q"],
       [key |-> "QY", tail |-> "QY"], [key |-> "VA", tail |-> "VA"],
       [key |-> "Y", tail |-> "FD"], [key |-> "labels_Z", tail |-> ""],
       [key |-> "labels_Y", tail |-> ""], [key |-> "labels_Q", tail |-> ""],
       [key |-> "labels_VA", tail |-> ""] >>

\* the name of the file of a key for a year and a price
EoraFileName(f, year, price) ==
    IF f.tail = "" THEN <<f.key>> ELSE <<"Eora26", year, price, f.tail>>

\* eora_header_spec, in the dict's order
eora_header_spec ==
    << [key |-> "Z", index |-> "labels_Z", columns |-> "labels_Z"],
       [key |-> "Q", index |-> "labels_Q", columns |-> "labels_Z"],
       [key |-> "QY", index |-> "labels_Q", columns |-> "labels_Y"],
       [key |-> "VA", index |-> "labels_VA", columns |-> "labels_Z"],
       [key |-> "Y", index |-> "labels_Z", columns |-> "labels_Y"] >>

\* ZY_col: the positions of the columns of labels_T.txt and labels_FD.txt
ZY_col == [full |-> 1, eora |-> 2, system |-> 3, name |-> 4]

\* lines 1821-1835: the label frames cut down to the columns that make the keys
EoraLabels(labels, key, country_names) ==
    IF key \in {"labels_Z", "labels_Y"}
    THEN [i \in DOMAIN labels[key] |->
            << labels[key][i][ZY_col[country_names]], labels[key][i][ZY_col.name] >>]
    ELSE IF key = "labels_Q"
    \* the unit in parentheses is cut off the stressor name
    THEN [i \in DOMAIN labels[key] |-> << labels[key][i][1][1], labels[key][i][2] >>]
    ELSE [i \in DOMAIN labels[key] |-> << labels[key][i][1], labels[key][i][2] >>]

\* labQ['stressor'].str.extract(r'\((.*)\)')
Q_unit(labels) == [i \in DOMAIN labels["labels_Q"] |-> << labels["labels_Q"][i][1][2] >>]

\* eora_data[key].loc[:, row_name].sum().values[0]: the sum of the first of the
\* columns of region row_name
FirstColumnSum(t, cols) ==
    SeqSum([i \in DOMAIN t.index |-> t.values[i][cols[1]]])

\* eora_data[key].loc[row_name, :].sum().values[0]: the sum, over the rows of
\* region row_name, of the first column of the table
FirstColumnOfRowsSum(t, rows) ==
    SeqSum([i \in DOMAIN rows |-> t.values[rows[i]][1]])

\* one turn of the loop over eora_header_spec on the unlabelled table values:
\* set the labels, remove the columns of ROW, then the rows of ROW, each with
\* its entry in the history.  Returns the table and the entries.
EoraHeaderStep(values, index, columns, key) ==
    With([t |-> Table(index, columns, values),
          cols |-> SelectIdx(columns, LAMBDA j : columns[j][1] = row_name),
          keepc |-> SelectIdx(columns, LAMBDA j : columns[j][1] # row_name),
          rows |-> SelectIdx(index, LAMBDA i : index[i][1] = row_name),
          keepr |-> SelectIdx(index, LAMBDA i : index[i][1] # row_name)],
      LAMBDA s :
        With(IF s.cols = <<>> THEN s.t ELSE Take(s.t, Positions(index), s.keepc), LAMBDA t1 :
          [table |-> IF s.rows = <<>> THEN t1 ELSE Take(t1, s.keepr, Positions(t1.columns)),
           entries |->
             (IF s.cols = <<>> THEN <<>>
              ELSE << [what |-> "row", table |-> key,
                       amount |-> FirstColumnSum(s.t, s.cols)] >>)
             \o (IF s.rows = <<>> \/ Len(t1.columns) = 0 THEN <<>>
                 ELSE << [what |-> "column", table |-> key,
                          amount |-> FirstColumnOfRowsSum(t1, s.rows)] >>),
           exc |-> IF s.rows # <<>> /\ Len(t1.columns) = 0 THEN "IndexError" ELSE ""]))

EoraLoc0 ==
    [country_names |-> "", year |-> "", price |-> "", eora_loc |-> <<>>,
     root_path |-> <<>>, is_zip |-> FALSE, members |-> {}, k |-> 1,
     eora_data |-> <<>>, removed |-> <<>>]

\* country_names[0].lower()
EoraFirstLower(w) ==
    CASE w = "eora" -> "e" [] w = "Eora" -> "e" [] w = "full" -> "f" [] OTHER -> "x"

\* the parameter country_names, and which eora file is to be parsed
EoraLocate ==
    /\ pc = "eora_start"
    /\ LET p == fs.path
           inyear == p.kind = "dir" /\ <<fs.year>> \in {e.name : e \in Range(p.listing)}
           listing == IF inyear THEN p.sublisting ELSE p.listing
           eora_file_list ==
               SelectSeq(listing, LAMBDA fl : fl.ext = ".zip" /\ fl.year = fs.year
                                              /\ fl.price = fs.price)
           exc == IF EoraFirstLower(fs.country_names) = "x" THEN "ParserError"
                  ELSE IF p.kind = "zip"
                  THEN (IF p.zip.year = "" \/ p.zip.price = "" THEN "AttributeError" ELSE "")
                  ELSE IF Len(eora_file_list) > 1 THEN "ParserError" ELSE ""
           dirname == IF inyear THEN <<p.name, <<fs.year>>>> ELSE <<p.name>>
       IN IF exc # ""
          THEN /\ ret' = Raise(exc)
               /\ pc' = "done"
               /\ UNCHANGED loc
          ELSE /\ loc' =
                    [EoraLoc0 EXCEPT
                       !.country_names = IF EoraFirstLower(fs.country_names) = "e"
                                         THEN "eora" ELSE "full",
                       !.year = IF p.kind = "zip" THEN p.zip.year ELSE fs.year,
                       !.price = IF p.kind = "zip" THEN p.zip.price ELSE fs.price,
                       !.is_zip = p.kind = "zip" \/ Len(eora_file_list) = 1,
                       !.eora_loc = IF p.kind = "zip" THEN <<p.name, p.zip.name>>
                                    ELSE IF Len(eora_file_list) = 1
                                    THEN Append(dirname, eora_file_list[1].name)
                                    ELSE dirname,
                       !.members = IF p.kind = "zip" THEN p.zip.members
                                   ELSE IF Len(eora_file_list) = 1
                                   THEN eora_file_list[1].members
                                   ELSE {fl.name : fl \in {e \in Range(listing) : e.ext = ".txt"}},
                       !.root_path = p.name]
               /\ pc' = "eora_read"
               /\ UNCHANGED ret
    /\ meta_rec' = <<>>
    /\ UNCHANGED <<fs, opened, zips>>

\* lines 1799-1819: the nine files are read from the archive or the folder
EoraRead ==
    /\ pc = "eora_read"
    /\ LET names == [i \in DOMAIN eora_files |->
                       EoraFileName(eora_files[i], loc.year, loc.price)]
           missing == {i \in DOMAIN names : names[i] \notin loc.members}
           upto == IF missing = {} THEN Len(names)
                   ELSE (CHOOSE i \in missing : \A q \in missing : i <= q) - 1
       IN /\ opened' = opened \o [i \in 1..upto |-> Append(loc.eora_loc, names[i])]
          /\ IF missing # {}
             THEN /\ ret' = Raise(IF loc.is_zip THEN "KeyError" ELSE "FileNotFoundError")
                  /\ zips' = IF loc.is_zip THEN zips \cup {loc.eora_loc} ELSE zips
                  /\ pc' = "done"
                  /\ UNCHANGED <<loc, meta_rec>>
             ELSE /\ loc' = [loc EXCEPT
                               !.eora_data = [i \in 1..Len(eora_header_spec) |->
                                                [tt |-> eora_header_spec[i].key,
                                                 raw |-> Table(<<>>, <<>>,
                                                           fs.data[eora_header_spec[i].key])]],
                               !.k = 1]
                  /\ meta_rec' = _add_fileio(meta_rec, loc.eora_loc)
                  /\ pc' = "eora_header"
                  /\ UNCHANGED <<zips, ret>>
    /\ UNCHANGED fs

\* one turn of the loop over eora_header_spec
EoraHeader ==
    /\ pc = "eora_header"
    /\ loc.k <= Len(eora_header_spec)
    /\ \E spec \in {eora_header_spec[loc.k]} :
       \E index \in {EoraLabels(fs.labels, spec.index, loc.country_names)},
          columns \in {EoraLabels(fs.labels, spec.columns, loc.country_names)},
          values \in {loc.eora_data[loc.k].raw.values} :
         IF Len(values) # Len(index) \/ (Len(values) > 0 /\ Len(values[1]) # Len(columns))
         THEN /\ ret' = Raise("ValueError")
              /\ pc' = "done"
              /\ UNCHANGED <<loc, meta_rec>>
         ELSE \E h \in {EoraHeaderStep(values, index, columns, spec.key)} :
                /\ loc' = [loc EXCEPT !.k = loc.k + 1,
                                      !.eora_data[loc.k].raw = h.table,
                                      !.removed = loc.removed \o h.entries]
                /\ meta_rec' = meta_rec \o
                      [i \in DOMAIN h.entries |-> Entry("modify", h.entries[i])]
                /\ UNCHANGED <<pc, ret>>
    /\ UNCHANGED <<fs, opened, zips>>

\* the end of parse_eora26 with the note written to a log of its own
EoraBuild_new_log ==
    /\ pc = "eora_header"
    /\ loc.k > Len(eora_header_spec)
    /\ meta_rec' = note(<<>>, "Set Eora moneatry units to Mill USD manually")
    /\ LET Data(key) == Get(loc.eora_data, key).raw
           MillUSD(index) == Table(index, <<"unit">>, [i \in DOMAIN index |-> <<"Mill USD">>])
       IN ret' = IOSystem(<< [tt |-> "Z", raw |-> Data("Z")], [tt |-> "Y", raw |-> Data("Y")],
                             [tt |-> "unit", raw |-> MillUSD(Data("Z").index)] >>,
                          << [tt |-> "Q", F |-> Data("Q"), F_Y |-> Data("QY"),
                              unit |-> Table(Data("Q").index, <<"unit">>, Q_unit(fs.labels)),
                              name |-> "Q"],
                             [tt |-> "VA", F |-> Data("VA"),
                              unit |-> MillUSD(Data("VA").index), name |-> "VA"] >>,
                          [version |-> <<>>, year |-> 0])
    /\ pc' = "done"
    /\ UNCHANGED <<fs, loc, opened, zips>>

\* units, the note on the monetary unit, the IOSystem
EoraBuild ==
    /\ pc = "eora_header"
    /\ loc.k > Len(eora_header_spec)
    /\ meta_rec' = note(meta_rec, "Set Eora moneatry units to Mill USD manually")
    /\ LET Data(key) == Get(loc.eora_data, key).raw
           MillUSD(index) == Table(index, <<"unit">>, [i \in DOMAIN index |-> <<"Mill USD">>])
       IN ret' = IOSystem(<< [tt |-> "Z", raw |-> Data("Z")], [tt |-> "Y", raw |-> Data("Y")],
                             [tt |-> "unit", raw |-> MillUSD(Data("Z").index)] >>,
                          << [tt |-> "Q", F |-> Data("Q"), F_Y |-> Data("QY"),
                              unit |-> Table(Data("Q").index, <<"unit">>, Q_unit(fs.labels)),
                              name |-> "Q"],
                             [tt |-> "VA", F |-> Data("VA"),
                              unit |-> MillUSD(Data("VA").index), name |-> "VA"] >>,
                          [version |-> <<>>, year |-> 0])
    /\ pc' = "done"
    /\ UNCHANGED <<fs, loc, opened, zips>>

(***************************************************************************)
(* Eora26 raw locations                                                    *)
(***************************************************************************)
EoraFullName(r) ==
    CASE r = "AUS" -> "Australia" [] r = "USA" -> "United States"
      [] OTHER -> "Statistical Discrepancies"

EoraRegionVariants == { <<"AUS", "USA", "ROW">>, <<"ROW", "AUS">>, <<"AUS", "USA">> }

\* the rows of labels_T.txt (kind = "Industries") or labels_FD.txt: each region
\* has n entries, ROW has one industry but n final demand categories
EoraZYLabels(R, n, kind) ==
    LET RECURSIVE Go(_)
        Go(k) ==
            IF k > Len(R) THEN <<>>
            ELSE [s \in 1..(IF R[k] = row_name /\ kind = "Industries" THEN 1 ELSE n) |->
                    << EoraFullName(R[k]), R[k], kind,
                       IF R[k] = row_name /\ kind = "Industries" THEN "TOTAL"
                       ELSE IF kind = "Industries" THEN SecNames[s] ELSE FdNames[s] >>]
                 \o Go(k + 1)
    IN Go(1)

EoraLabelFiles(R, nsec, nfd) ==
    [labels_Z |-> EoraZYLabels(R, nsec, "Industries"),
     labels_Y |-> EoraZYLabels(R, nfd, "Final demand"),
     labels_Q |-> << << <<"CO2", "Gg">>, "EDGAR" >>, << <<"CH4", "Gg">>, "EDGAR" >> >>,
     labels_VA |-> << <<"Primary Inputs", "Compensation of employees">> >>]

\* the five data files for these labels; short: FD.txt lacks its last column
EoraDataFiles(labels, short) ==
    LET Cells(n, m, base) == [i \in 1..n |-> [j \in 1..m |-> base + 10 * i + j]]
        nz == Len(labels.labels_Z)
        ny == Len(labels.labels_Y)
    IN [Z |-> Cells(nz, nz, 1000), Q |-> Cells(Len(labels.labels_Q), nz, 2000),
        QY |-> Cells(Len(labels.labels_Q), ny, 3000),
        VA |-> Cells(Len(labels.labels_VA), nz, 4000),
        Y |-> Cells(nz, IF short THEN ny - 1 ELSE ny, 5000)]

EoraMembers(year, price) ==
    {EoraFileName(eora_files[i], year, price) : i \in DOMAIN eora_files}

EoraZip(tag, members) ==
    [name |-> <<"Eora26", "2010", "bp", tag, "zip">>, ext |-> ".zip", year |-> "2010",
     price |-> "bp", members |-> members]

\* the unpacked files of an archive as entries of a listing
EoraTxt(members) ==
    LET RECURSIVE Go(_)
        Go(S) == IF S = {} THEN <<>>
                 ELSE LET m == CHOOSE x \in S : TRUE
                      IN << [name |-> m, ext |-> ".txt", year |-> "2010", price |-> "bp",
                             members |-> {}] >> \o Go(S \ {m})
    IN Go(members)

EoraPaths ==
    LET all == EoraMembers("2010", "bp")
        part == all \ { <<"labels_Q">> }
        Dir(listing, sublisting) ==
            [kind |-> "dir", name |-> <<"eora">>, zip |-> EoraZip("", {}),
             listing |-> listing, sublisting |-> sublisting]
    IN { [kind |-> "zip", name |-> <<"eora">>, zip |-> EoraZip("", all),
          listing |-> <<>>, sublisting |-> <<>>],
         [kind |-> "zip", name |-> <<"eora">>, zip |-> EoraZip("", part),
          listing |-> <<>>, sublisting |-> <<>>],
         [kind |-> "zip", name |-> <<"eora">>,
          zip |-> [EoraZip("", all) EXCEPT !.year = "", !.price = ""],
          listing |-> <<>>, sublisting |-> <<>>],
         Dir(<< EoraZip("", all) >>, <<>>),
         Dir(<< EoraZip("", all) >> \o EoraTxt(all), <<>>),
         Dir(<< EoraZip("", part) >> \o EoraTxt(all), <<>>),
         Dir(EoraTxt(all), <<>>),
         Dir(EoraTxt(part), <<>>),
         Dir(<< EoraZip("", all), EoraZip("copy", all) >>, <<>>),
         Dir(<< [name |-> <<"2010">>, ext |-> "", year |-> "2010", price |-> "",
                 members |-> {}] >>, << EoraZip("", all) >>) }

InitEora ==
    /\ pc = "eora_start"
    /\ \E path \in EoraPaths, price \in {"bp", "pp"}, country_names \in {"eora", "full", "names"},
          R \in EoraRegionVariants, nsec \in 1..MaxSec, nfd \in 1..MaxFd, short \in BOOLEAN :
       \E labels \in {EoraLabelFiles(R, nsec, nfd)} :
         fs = [adapter |-> "parse_eora26", path |-> path, year |-> "2010", price |-> price,
               country_names |-> country_names, labels |-> labels,
               data |-> EoraDataFiles(labels, short)]
    /\ loc = EoraLoc0
    /\ meta_rec = <<>>
    /\ opened = <<>>
    /\ zips = {}
    /\ ret = NoRet

NextEora == EoraLocate \/ EoraRead \/ EoraHeader \/ EoraBuild \/ Finalize

SpecEora == InitEora /\ [][NextEora]_vars

(***************************************************************************)
(* cecilia_parser: numbers                                                 *)
(***************************************************************************)
\* The cells of the Cecilia matrices are held as exact fractions <<p, q>>, p and
\* q coprime, q >= 0, so that a ratio is neither rounded nor scaled.
RECURSIVE GCD(_, _)
GCD(a, b) == IF b = 0 THEN a ELSE GCD(b, a % b)

Abs(n) == IF n < 0 THEN 0 - n ELSE n

\* a float: p / q in lowest terms; q = 0 holds the values that are not finite
\* (<<1, 0>> and <<-1, 0>> the infinities, <<0, 0>> NaN)
Frac(p, q) ==
    IF q = 0 THEN <<IF p > 0 THEN 1 ELSE IF p < 0 THEN 0 - 1 ELSE 0, 0>>
    ELSE LET g == GCD(Abs(p), Abs(q))
         IN IF q < 0 THEN <<(0 - p) \div g, (0 - q) \div g>> ELSE <<p \div g, q \div g>>

Num0 == <<0, 1>>

Num1 == <<1, 1>>

\* the sums and products cancel common factors first, to keep the terms small
FAdd(a, b) ==
    IF a[2] = 0 \/ b[2] = 0 THEN Frac(a[1] * b[2] + b[1] * a[2], a[2] * b[2])
    ELSE LET g == GCD(a[2], b[2])
         IN Frac(a[1] * (b[2] \div g) + b[1] * (a[2] \div g), (a[2] \div g) * b[2])

FSub(a, b) == FAdd(a, <<0 - b[1], b[2]>>)

FMul(a, b) ==
    IF a[2] = 0 \/ b[2] = 0 \/ a[1] = 0 \/ b[1] = 0 THEN Frac(a[1] * b[1], a[2] * b[2])
    ELSE LET g == GCD(Abs(a[1]), b[2])
             h == GCD(Abs(b[1]), a[2])
         IN Frac((a[1] \div g) * (b[1] \div h), (a[2] \div h) * (b[2] \div g))

FAbs(a) == <<Abs(a[1]), a[2]>>

FLess(a, b) == a[1] * b[2] < b[1] * a[2]

FMax(a, b) == IF FLess(a, b) THEN b ELSE a

\* np.true_divide(a, b) for one cell: x / 0 is an infinity, 0 / 0 is NaN
true_divide(a, b) == Frac(a[1] * b[2], a[2] * b[1])

isfinite(a) == a[2] # 0

\* div0(a, b) of pymrio.tools.iomath for one cell: a / b, and 0 where that is
\* not finite
div0(a, b) == IF isfinite(true_divide(a, b)) THEN true_divide(a, b) ELSE Num0

RECURSIVE FSum(_)
FSum(s) == IF s = <<>> THEN Num0 ELSE FAdd(Head(s), FSum(Tail(s)))

\* numpy on matrices held as sequences of rows
np_shape(M) == <<NRows(M), NCols(M)>>

np_transpose(M) == [j \in 1..NCols(M) |-> [i \in 1..NRows(M) |-> M[i][j]]]

np_diag(v) == [i \in DOMAIN v |-> [j \in DOMAIN v |-> IF i = j THEN v[i] ELSE Num0]]

np_ones(shape) == [i \in 1..shape[1] |-> [j \in 1..shape[2] |-> Num1]]

np_eye(n) == [i \in 1..n |-> [j \in 1..n |-> IF i = j THEN Num1 ELSE Num0]]

\* np.sum(M, axis=1) and M.sum(axis=1): the sums of the rows
np_sum_axis1(M) == [i \in 1..NRows(M) |-> FSum(M[i])]

\* the sums of the columns taken along the wrong axis
np_sum_axis0_rows(M) == [j \in 1..NCols(M) |-> FSum(M[j])]

\* np.sum(M, axis=0): the sums of the columns
np_sum_axis0(M) == [j \in 1..NCols(M) |-> FSum([i \in 1..NRows(M) |-> M[i][j]])]

\* M.dot(N)
np_dot(M, N) ==
    [i \in 1..NRows(M) |-> [j \in 1..NCols(N) |->
        FSum([k \in 1..NRows(N) |-> FMul(M[i][k], N[k][j])])]]

\* div0 on two arrays of one shape, and on the scalar 1 and a vector
div0_array(M, N) == [i \in 1..NRows(M) |-> [j \in 1..NCols(M) |-> div0(M[i][j], N[i][j])]]

div0_scalar(a, v) == [i \in DOMAIN v |-> div0(a, v[i])]

np_subtract(M, N) == [i \in 1..NRows(M) |-> [j \in 1..NCols(M) |-> FSub(M[i][j], N[i][j])]]

\* M without row r and column c
Minor(M, r, c) ==
    [i \in 1..(NRows(M) - 1) |-> [j \in 1..(NCols(M) - 1) |->
        M[IF i < r THEN i ELSE i + 1][IF j < c THEN j ELSE j + 1]]]

RECURSIVE Det(_)
Det(M) ==
    IF NRows(M) = 1 THEN M[1][1]
    ELSE FSum([j \in 1..NCols(M) |->
                 IF M[1][j] = Num0 THEN Num0
                 ELSE FMul(IF j % 2 = 1 THEN M[1][j] ELSE FSub(Num0, M[1][j]),
                           Det(Minor(M, 1, j)))])

\* np.linalg.inv(M) for a matrix that is not singular
np_linalg_inv(M) ==
    LET d == Det(M)
    IN [i \in 1..NRows(M) |-> [j \in 1..NCols(M) |->
          true_divide(IF NRows(M) = 1 THEN Num1
                      ELSE IF (i + j) % 2 = 0 THEN Det(Minor(M, j, i))
                      ELSE FSub(Num0, Det(Minor(M, j, i))), d)]]

\* the transformation without the transposition of the 'pxp' table
IOT_from_SUT_untransposed(S, U, kind) ==
    IF kind = "pxp"
    THEN np_dot(U, div0_array(S, np_dot(np_diag(np_sum_axis1(S)), np_ones(np_shape(S)))))
    ELSE IF kind = "ixi"
    THEN np_dot(div0_array(S, np_dot(np_ones(np_shape(S)), np_diag(np_sum_axis0(S)))), U)
    ELSE <<>>

\* IOT_from_SUT(S, U, kind): Computes Z table; None for another kind
IOT_from_SUT(S, U, kind) ==
    IF kind = "pxp"
    THEN np_transpose(np_dot(U, div0_array(S, np_dot(np_diag(np_sum_axis1(S)),
                                                     np_ones(np_shape(S))))))
    ELSE IF kind = "ixi"
    THEN np_dot(div0_array(S, np_dot(np_ones(np_shape(S)), np_diag(np_sum_axis0(S)))), U)
    ELSE <<>>

(***************************************************************************)
(* cecilia_parser: load_matrix, load_extensions, load_system               *)
(***************************************************************************)
\* The steps are held by the text str(step) gives: "-1", "0", "1", "2a", "2b",
\* "3"; "None" is the call without a step.
CeciliaSteps == <<"-1", "0", "1", "2a", "2b", "3">>

\* step_num of load_matrix: int(step[0]) for a string, else the step itself
step_num(step) ==
    CASE step = "-1" -> 0 - 1
      [] step = "0" -> 0
      [] step = "1" -> 1
      [] step \in {"2a", "2b"} -> 2
      [] OTHER -> 3

\* the file load_matrix reads for a matrix at a step
matrix_file(matrix, step) ==
    IF step_num(step) = 0 - 1
    THEN <<"preprocess/",
           CASE matrix = "U" -> "mrUseAggregated.txt"
             [] matrix = "V" -> "mrSupplyAggregated.txt"
             [] OTHER -> "mrFinalDemandAggregated.txt">>
    ELSE IF step_num(step) = 0 THEN <<"preprocess/", matrix, ".txt">>
    ELSE <<"step", step, "/", matrix, "end.txt">>

\* an n x n table with block M repeated along the diagonal
Repeated(M, n) ==
    [i \in 1..n |-> [j \in 1..n |->
        IF (i - 1) \div Len(M) = (j - 1) \div Len(M)
        THEN M[((i - 1) % Len(M)) + 1][((j - 1) % Len(M)) + 1] ELSE 0]]

\* an n x m final demand table: the first category holds d, repeated
Demand(d, n, m) ==
    [i \in 1..n |-> [j \in 1..m |-> IF j = 1 THEN d[((i - 1) % Len(d)) + 1] ELSE 0]]

\* the number block of one of the three files of a step
FileBlock(files, matrix) ==
    IF matrix = "Y" THEN Demand(files.Y, files.n, files.m) ELSE Repeated(files[matrix], files.n)

\* np.loadtxt: the number block of a file, as floats
np_loadtxt(block) == [i \in 1..NRows(block) |-> [j \in 1..NCols(block) |-> Frac(block[i][j], 1)]]

\* load_matrix(matrix, step, system): the aggregated files hold the tables of
\* step -1, every other step reads its own files
load_matrix(matrix, step) ==
    np_loadtxt(FileBlock(IF step_num(step) = 0 - 1 THEN fs.aggregated ELSE fs.tables, matrix))

regions == <<"EU", "HI", "BX", "WW">>

\* pd.MultiIndex.from_product([a, b]): the pairs, the first level slowest
from_product(a, b) ==
    [k \in 1..(Len(a) * Len(b)) |-> <<a[((k - 1) \div Len(b)) + 1], b[((k - 1) % Len(b)) + 1]>>]

\* the final demand categories load_system labels the columns of Y with
fd_categories ==
    <<"Final consumption expenditure by households",
      "Final consumption expenditure by non-profit organisations serving households (NPISH)",
      "Final consumption expenditure by government",
      "Gross fixed capital formation", "Changes in inventories",
      "Changes in valuables", "Export">>

\* load_extensions(): the labels and the initial material extension; the
\* frame F_init has to be as wide as the index is long
load_extensions ==
    LET index == from_product(regions, fs.sectors)
    IN  IF NCols(fs.materials.values) # Len(index) THEN Raise("ValueError")
        ELSE [kind |-> "extensions",
              labels |-> [regions |-> regions, sectors |-> fs.sectors, index |-> index,
                          names |-> LevelNames(<<"region", "sector">>, <<>>),
                          name |-> "labels"],
              materials |-> [tables |-> << [tt |-> "F_init",
                                            raw |-> Table(fs.materials.index, index,
                                                          np_loadtxt(fs.materials.values)),
                                            names |-> LevelNames(<<>>, <<"region", "sector">>)] >>,
                             index |-> fs.materials.index,
                             name |-> "impact"]]

CeciliaLoc0 ==
    [extensions |-> NoRet, steps |-> <<>>, cecilias |-> <<>>,
     S |-> <<>>, U |-> <<>>, y |-> <<>>, Z |-> <<>>, x |-> <<>>, A |-> <<>>, L |-> <<>>]

\* cecilia_parser up to the first load_system: the extensions, the steps to load
CeciliaExtensions ==
    /\ pc = "cec_start"
    /\ \E extensions \in {load_extensions} :
          IF extensions.kind = "error"
          THEN ret' = extensions /\ pc' = "done" /\ UNCHANGED loc
          ELSE /\ loc' = [loc EXCEPT !.extensions = extensions,
                                     !.steps = IF fs.step = "None" THEN CeciliaSteps
                                               ELSE <<fs.step>>]
               /\ pc' = "cec_matrix"
               /\ UNCHANGED ret
    /\ opened' = opened \o << <<fs.path, "supply_use_tables_bau_2050.xlsx">>,
                              <<fs.path, "preprocess/", "mrMaterialsAggregated.txt">>,
                              <<fs.path, "preprocess/", "mrMaterialsAggregated.txt">> >>
    /\ UNCHANGED <<fs, meta_rec, zips>>

\* x = y.sum(axis=1) + Z.sum(axis=1)
total_output(y, Z) ==
    [i \in 1..NRows(Z) |-> FAdd(np_sum_axis1(y)[i], np_sum_axis1(Z)[i])]

\* the coefficients with a plain division in place of div0
coefficients_true_divide(Z, x) ==
    np_dot(Z, np_diag([i \in DOMAIN x |-> true_divide(Num1, x[i])]))

\* A = Z.dot(np.diag(div0(1,x)))
coefficients(Z, x) == np_dot(Z, np_diag(div0_scalar(Num1, x)))

\* load_system, first lines: the three matrices of the step, Z, x and A
CeciliaTransform ==
    /\ pc = "cec_matrix"
    /\ \E step \in {Head(loc.steps)} :
       \E S \in {load_matrix("V", step)}, U \in {load_matrix("U", step)},
          y \in {load_matrix("Y", step)} :
       \E Z \in {IOT_from_SUT(S, U, fs.system)} :
          /\ opened' = opened \o << <<fs.path>> \o matrix_file("V", step),
                                    <<fs.path>> \o matrix_file("U", step),
                                    <<fs.path>> \o matrix_file("Y", step) >>
          /\ IF fs.system \notin {"pxp", "ixi"}
             THEN ret' = Raise("AttributeError") /\ pc' = "done" /\ UNCHANGED loc
             ELSE \E x \in {total_output(y, Z)} :
                    /\ loc' = [loc EXCEPT !.S = S, !.U = U, !.y = y, !.Z = Z, !.x = x,
                                          !.A = coefficients(Z, x), !.L = <<>>]
                    /\ pc' = "cec_invert"
                    /\ UNCHANGED ret
    /\ UNCHANGED <<fs, meta_rec, zips>>

\* np.eye(A.shape[0])-A
Leontief(A) == np_subtract(np_eye(NRows(A)), A)

\* L = np.linalg.inv(np.eye(A.shape[0])-A): numpy raises LinAlgError when the
\* factorisation meets a pivot that is exactly zero
CeciliaInvert ==
    /\ pc = "cec_invert"
    /\ IF Det(Leontief(loc.A)) = Num0
       THEN ret' = Raise("LinAlgError") /\ pc' = "done" /\ UNCHANGED loc
       ELSE /\ loc' = [loc EXCEPT !.L = np_linalg_inv(Leontief(loc.A))]
            /\ pc' = "cec_build"
            /\ UNCHANGED ret
    /\ UNCHANGED <<fs, meta_rec, opened, zips>>

\* x_init of load_system: the x of step -1, else computed from the aggregated
\* files (the x_init handed in is None in every call)
x_init_of(step, x) ==
    IF step = "-1" THEN x
    ELSE LET y_init == load_matrix("Y", "-1")
         IN  total_output(y_init, IOT_from_SUT(load_matrix("V", "-1"),
                                               load_matrix("U", "-1"), fs.system))

\* a frame times (or div0 by) a vector, along the columns
ScaleColumns(t, v, Op(_, _)) ==
    Table(t.index, t.columns,
          [i \in 1..Len(t.index) |-> [j \in 1..Len(t.columns) |-> Op(t.values[i][j], v[j])]])

\* the materials extension after the two updates of load_system
materials_of(materials, x_init, x) ==
    LET F_init == materials.tables[1]
        names == LevelNames(<<>>, <<"region", "sector">>)
        S == ScaleColumns(F_init.raw, x_init, div0)
    IN  [materials EXCEPT !.tables =
            << F_init, [tt |-> "S", raw |-> S, names |-> names],
               [tt |-> "F", raw |-> ScaleColumns(S, x, FMul), names |-> names] >>]

\* load_system, from the labels to the IOSystem; A and L stay arrays without
\* keys, Z, Y and x are labelled with the index of the extensions
cecilia_system(step) ==
    LET index == loc.extensions.labels.index
        index_y == from_product(regions, fd_categories)
        x_init == x_init_of(step, loc.x)
        square == LevelNames(<<"region", "sector">>, <<"region", "sector">>)
    IN  IF \/ Len(loc.x) # Len(index)
           \/ Len(x_init) # Len(index)
           \/ np_shape(loc.y) # <<Len(index), Len(index_y)>>
        THEN Raise("ValueError")
        ELSE IOSystem(
               << [tt |-> "A", raw |-> Table(<<>>, <<>>, loc.A), names |-> LevelNames(<<>>, <<>>)],
                  [tt |-> "Z", raw |-> Table(index, index, loc.Z), names |-> square],
                  [tt |-> "Y", raw |-> Table(index, index_y, loc.y),
                   names |-> LevelNames(<<"region", "sector">>, <<"region", "sector">>)],
                  [tt |-> "x", raw |-> Table(index, <<>>, loc.x),
                   names |-> LevelNames(<<"region", "sector">>, <<>>)],
                  [tt |-> "L", raw |-> Table(<<>>, <<>>, loc.L), names |-> LevelNames(<<>>, <<>>)] >>,
               [labels |-> loc.extensions.labels,
                materials |-> materials_of(loc.extensions.materials, x_init, loc.x)],
               [system |-> fs.system, name |-> "Cecilia", version |-> step,
                year |-> IF step \in {"0", "-1"} THEN 2000 ELSE 2050])

\* the rest of load_system and the loop of cecilia_parser over the steps
CeciliaBuild ==
    /\ pc = "cec_build"
    /\ \E step \in {Head(loc.steps)} :
       \E io \in {cecilia_system(step)} :
          /\ opened' = IF step = "-1" THEN opened
                       ELSE opened \o << <<fs.path>> \o matrix_file("V", "-1"),
                                         <<fs.path>> \o matrix_file("U", "-1"),
                                         <<fs.path>> \o matrix_file("Y", "-1") >>
          /\ IF io.kind = "error" THEN ret' = io /\ pc' = "done" /\ UNCHANGED <<loc, meta_rec>>
             ELSE /\ meta_rec' = <<>>
                  /\ IF fs.step # "None"
                     THEN ret' = io /\ pc' = "done" /\ UNCHANGED loc
                     ELSE /\ loc' = [loc EXCEPT !.steps = Tail(loc.steps),
                                                !.cecilias = Append(loc.cecilias, io),
                                                !.extensions.materials = io.ext.materials]
                          /\ IF Len(loc.steps) = 1
                             THEN ret' = [kind |-> "systems", systems |-> loc'.cecilias]
                                  /\ pc' = "done"
                             ELSE pc' = "cec_matrix" /\ UNCHANGED ret
    /\ UNCHANGED <<fs, zips>>

(***************************************************************************)
(* Cecilia raw locations                                                   *)
(***************************************************************************)
\* the largest cell of a supply, use or final demand file
MaxCell == 1

\* the supply and use blocks of two products and two industries
Blocks2x2 == {<< <<a, b>>, <<c, d>> >> : a \in 0..MaxCell, b \in 0..MaxCell,
                                          c \in 0..MaxCell, d \in 0..MaxCell}

\* the three files of a step, held by their blocks and their widths
CeciliaTables(S, U, d, n, m) == [V |-> S, U |-> U, Y |-> d, n |-> n, m |-> m]

Identity2x2 == << <<1, 0>>, <<0, 1>> >>

Zero2x2 == << <<0, 0>>, <<0, 0>> >>

\* the width of the aggregated files: one sector in each region
AggregatedWidth == Len(regions)

\* the aggregated files when the call reads another step: supply the identity,
\* no use, final demand 1
BaseTables ==
    CeciliaTables(Identity2x2, Zero2x2, <<1, 1>>, AggregatedWidth,
                  Len(regions) * Len(fd_categories))

CeciliaMaterials ==
    [index |-> <<"Biomass">>, values |-> << [j \in 1..AggregatedWidth |-> 2] >>]

\* the tables of the calls that reach the labelling: supply, use, final demand
LabelledSupply == {Identity2x2, Zero2x2, << <<1, 0>>, <<0, 0>> >>}

\* the last use table makes (I - A) badly conditioned
LabelledUse ==
    {Zero2x2, Identity2x2, << <<0, 1>>, <<1, 0>> >>, << <<1, 1>>, <<1, 1>> >>,
     << <<25, 25>>, <<25, 25>> >>}

LabelledDemand == {<<0, 0>>, <<1, 0>>, <<1, 1>>}

\* fs of a call of cecilia_parser on tables n wide
CeciliaCall(S, U, d, n, system, step, sectors) ==
    [adapter |-> "cecilia_parser", path |-> "cecilia/",
     step |-> step, system |-> system, sectors |-> sectors,
     materials |-> CeciliaMaterials,
     aggregated |-> IF step = "-1"
                    THEN CeciliaTables(S, U, d, n, Len(regions) * Len(fd_categories))
                    ELSE BaseTables,
     tables |-> CeciliaTables(S, U, d, n,
                              IF n = 2 THEN 2 ELSE Len(regions) * Len(fd_categories))]

\* Either two products and two industries at step 0, supply and use over
\* 0..MaxCell and a final demand of 0 or MaxCell for each product (the
\* labelling then fails), or tables as wide as the index.
InitCecilia ==
    /\ pc = "cec_start"
    /\ \/ \E S \in Blocks2x2, U \in Blocks2x2, d \in [1..2 -> {0, MaxCell}],
             system \in {"pxp", "ixi"} :
            fs = CeciliaCall(S, U, d, 2, system, "0", <<"s1">>)
       \/ \E S \in LabelledSupply, U \in LabelledUse, d \in LabelledDemand,
             system \in {"pxp", "ixi"}, step \in {"None", "-1", "0", "2a"} :
            fs = CeciliaCall(S, U, d, AggregatedWidth, system, step, <<"s1">>)
       \/ \E system \in {"pxp", "ixi", "p"}, sectors \in {<<"s1">>, <<"s1", "s2">>} :
            fs = CeciliaCall(Zero2x2, Zero2x2, <<0, 0>>, AggregatedWidth, system, "0", sectors)
    /\ loc = CeciliaLoc0
    /\ meta_rec = <<>>
    /\ opened = <<>>
    /\ zips = {}
    /\ ret = NoRet

NextCecilia == CeciliaExtensions \/ CeciliaTransform \/ CeciliaInvert \/ CeciliaBuild

SpecCecilia == InitCecilia /\ [][NextCecilia]_vars

(***************************************************************************)
(* The layout sniffer (pymrio.tools.ioutil.sniff_csv_format)               *)
(***************************************************************************)
\* A line of a file is a sequence of characters.  The sniffer reads a window of
\* leading lines, picks among the candidates the separator that gives every
\* line of the window the same number of fields, counts as header rows the
\* rows above the first row that holds numeric data, and as index columns the
\* cells of that row to the left of its first numeric cell.
potential_sep == <<"tab", ",", ";">>

\* the number of lines the sniffer samples
max_test_lines == 10

RECURSIVE CountOf(_, _)
CountOf(line, ch) ==
    IF line = <<>> THEN 0
    ELSE (IF Head(line) = ch THEN 1 ELSE 0) + CountOf(Tail(line), ch)

\* line.split(sep)
RECURSIVE Split(_, _)
Split(line, sep) ==
    IF \A i \in DOMAIN line : line[i] # sep THEN <<line>>
    ELSE LET k == CHOOSE i \in DOMAIN line :
                     line[i] = sep /\ \A q \in 1..(i - 1) : line[q] # sep
         IN <<SubSeq(line, 1, k - 1)>> \o Split(SubSeq(line, k + 1, Len(line)), sep)

\* a cell that parses as a number
IsNumeric(cell) ==
    cell # <<>> /\ \A i \in DOMAIN cell : cell[i] \in {"0", "1", "2", "."}

\* the candidates that occur, the same number of times, in every line
ConsistentSeps(test_lines) ==
    SelectSeq(potential_sep,
              LAMBDA sep : /\ CountOf(test_lines[1], sep) > 0
                           /\ \A i \in DOMAIN test_lines :
                                 CountOf(test_lines[i], sep) = CountOf(test_lines[1], sep))

\* the rows of the window that hold a numeric cell
DataRows(rows) == {i \in DOMAIN rows : \E j \in DOMAIN rows[i] : IsNumeric(rows[i][j])}

\* the number of rows above the first row that holds numeric data
nr_header_row(rows) == (CHOOSE i \in DataRows(rows) : \A q \in DataRows(rows) : i <= q) - 1

\* the position of the first numeric cell of a row
nr_index_col_position(row) ==
    CHOOSE j \in DOMAIN row : IsNumeric(row[j]) /\ \A q \in 1..(j - 1) : ~IsNumeric(row[q])

\* the number of cells of a row to the left of its first numeric cell
nr_index_col(row) ==
    (CHOOSE j \in DOMAIN row : IsNumeric(row[j]) /\ \A q \in 1..(j - 1) : ~IsNumeric(row[q])) - 1

SniffLoc0 == [test_lines |-> <<>>, sep |-> ""]

\* read the window of leading lines
SniffRead ==
    /\ pc = "sniff_start"
    /\ loc' = [loc EXCEPT !.test_lines =
                  SubSeq(fs.lines, 1, IF Len(fs.lines) < max_test_lines THEN Len(fs.lines)
                                      ELSE max_test_lines)]
    /\ opened' = Append(opened, fs.file)
    /\ pc' = "sniff_sep"
    /\ UNCHANGED <<fs, meta_rec, zips, ret>>

\* the separator
SniffSeparator ==
    /\ pc = "sniff_sep"
    /\ IF loc.test_lines = <<>> \/ ConsistentSeps(loc.test_lines) = <<>>
       THEN ret' = Raise("FormatDetectionError") /\ pc' = "done" /\ UNCHANGED loc
       ELSE /\ loc' = [loc EXCEPT !.sep = ConsistentSeps(loc.test_lines)[1]]
            /\ pc' = "sniff_layout"
            /\ UNCHANGED ret
    /\ UNCHANGED <<fs, meta_rec, opened, zips>>

\* the header rows and the index columns
SniffLayout ==
    /\ pc = "sniff_layout"
    /\ \E rows \in {[i \in DOMAIN loc.test_lines |-> Split(loc.test_lines[i], loc.sep)]} :
          IF DataRows(rows) = {}
          THEN ret' = Raise("FormatDetectionError")
          ELSE ret' = [kind |-> "format", sep |-> loc.sep,
                       nr_header_row |-> nr_header_row(rows),
                       nr_index_col |-> nr_index_col(rows[nr_header_row(rows) + 1])]
    /\ pc' = "done"
    /\ UNCHANGED <<fs, loc, meta_rec, opened, zips>>

(***************************************************************************)
(* Synthetic delimited files                                               *)
(***************************************************************************)
\* the largest number of data rows and of data columns of a synthetic file
MaxData == 2

\* cells joined by a separator
RECURSIVE Join(_, _)
Join(cells, sep) ==
    IF cells = <<>> THEN <<>>
    ELSE IF Len(cells) = 1 THEN cells[1]
    ELSE cells[1] \o <<sep>> \o Join(Tail(cells), sep)

\* A file with header header rows, index index columns and rows x cols numbers.
\* The corner cells are empty in all header rows but the last; the labels are
\* letters; a label of the first header row can hold the character inside.
SyntheticFile(sep, header, index, rows, cols, inside) ==
    [i \in 1..(header + rows) |->
        Join([j \in 1..(index + cols) |->
                IF i <= header /\ j <= index
                THEN (IF i = header THEN <<"n">> ELSE <<>>)
                ELSE IF i <= header
                THEN (IF i = 1 /\ j = index + 1 /\ inside # ""
                      THEN <<"c", inside, "d">> ELSE <<"c">>)
                ELSE IF j <= index THEN <<"r">>
                ELSE IF (i + j) % 2 = 0 THEN <<"1", ".", "2">> ELSE <<"0">>],
             sep)]

InitSniff ==
    /\ pc = "sniff_start"
    /\ \E s \in DOMAIN potential_sep, header \in 1..3, index \in 1..3,
          rows \in 0..MaxData, cols \in 1..MaxData, inside \in {"", ",", ";", "tab", " "} :
         /\ inside # potential_sep[s]
         /\ fs = [adapter |-> "sniff_csv_format", file |-> <<"synthetic", "file.txt">>,
                  sep |-> potential_sep[s], nr_header_row |-> header, nr_index_col |-> index,
                  rows |-> rows, cols |-> cols,
                  lines |-> SyntheticFile(potential_sep[s], header, index, rows, cols, inside)]
    /\ loc = SniffLoc0
    /\ meta_rec = <<>>
    /\ opened = <<>>
    /\ zips = {}
    /\ ret = NoRet

NextSniff == SniffRead \/ SniffSeparator \/ SniffLayout

SpecSniff == InitSniff /\ [][NextSniff]_vars

(***************************************************************************)
(* themis_parser                                                           *)
(***************************************************************************)
\* None; a year is held as <<>> (None) or <<y>>, dlr_files as None, "True" or a path
None == "None"

\* for y in [2010, 2030, 2050]
themis_years == <<2010, 2030, 2050>>

\* the scenarios with the combo scenario built first
scenarios_combo_first(dlr_files, combo) ==
    IF dlr_files # None
    THEN (IF combo THEN <<"combo", "BL", "BM", "REF", "ER", "ADV">>
          ELSE <<"BL", "BM", "REF", "ER", "ADV">>)
    ELSE <<"BL", "BM">>

\* the scenarios of the all-scenario mode
scenarios_of(dlr_files, combo) ==
    IF dlr_files # None
    THEN (IF combo THEN <<"BL", "BM", "REF", "ER", "ADV", "combo">>
          ELSE <<"BL", "BM", "REF", "ER", "ADV">>)
    ELSE <<"BL", "BM">>

\* all_themis is held as the sequence of its systems in the order they are
\* assigned; key is <<scenario, year>>
ThemisKeys(all_themis) == {all_themis[i].key : i \in DOMAIN all_themis}

\* the system all_themis[s][y] is copied from
copy_source(s, y) ==
    IF s = "combo" THEN (IF y \in {2010, 2030} THEN <<"BL", 2010>> ELSE <<"BL", 2050>>)
    ELSE IF s = "REF" THEN <<"BL", y>>
    ELSE <<"BM", y>>

\* the systems read after all_themis[s][y] is assigned, in the order of the code
lookups_after(s, y) ==
    IF s = "combo"
    THEN (IF y \in {2010, 2030}
          THEN LET sc == IF y = 2030 THEN "ER" ELSE "ADV"
               IN << <<sc, 2050>>, <<sc, 2050>>, <<sc, 2050>> >>
          ELSE << <<"BL", 2010>> >>)
    ELSE << <<s, 2010>>, <<s, 2010>>, <<s, 2010>>, <<s, 2010>>, <<s, 2010>> >>

ThemisLoc0 == [scenarios |-> <<>>, si |-> 1, yi |-> 1, all_themis |-> <<>>, computed |-> {}]

\* the single-system mode: themis_parser(exio_files, year, scenario)
themis_system(year, scenario) ==
    [kind |-> "system", name |-> "THEMIS", version |-> scenario, year |-> year]

\* the branch on year and scenario, and the choice of the scenarios
ThemisStart ==
    /\ pc = "themis_start"
    /\ IF fs.year = <<>> /\ fs.scenario = None
       THEN /\ loc' = [loc EXCEPT !.scenarios = scenarios_of(fs.dlr_files, fs.combo)]
            /\ pc' = "themis_loop"
            /\ UNCHANGED <<ret, meta_rec>>
       ELSE IF fs.year = <<>> \/ fs.scenario = None
       THEN /\ ret' = [kind |-> "None"]
            /\ pc' = "done"
            /\ UNCHANGED <<loc, meta_rec>>
       ELSE /\ ret' = themis_system(fs.year[1], fs.scenario)
            /\ meta_rec' = <<>>
            /\ pc' = "done"
            /\ UNCHANGED loc
    /\ UNCHANGED <<fs, opened, zips>>

\* one turn of the loop over the scenarios and the years
ThemisLoop ==
    /\ pc = "themis_loop"
    /\ loc.si <= Len(loc.scenarios)
    /\ LET s == loc.scenarios[loc.si]
           y == themis_years[loc.yi]
           built == ThemisKeys(loc.all_themis)
           advance == [loc EXCEPT !.si = IF loc.yi = Len(themis_years) THEN loc.si + 1 ELSE loc.si,
                                  !.yi = IF loc.yi = Len(themis_years) THEN 1 ELSE loc.yi + 1]
       IN IF s \in {"BL", "BM"}
          THEN /\ loc' = [advance EXCEPT !.all_themis =
                             Append(loc.all_themis,
                                    [key |-> <<s, y>>, system |-> themis_system(y, s),
                                     scenario |-> s, reads |-> <<>>])]
               /\ UNCHANGED <<pc, ret>>
          ELSE IF \/ copy_source(s, y) \notin built
                  \/ \E k \in Range(lookups_after(s, y)) : k \notin built \cup {<<s, y>>}
          THEN /\ ret' = Raise("KeyError")
               /\ pc' = "done"
               /\ UNCHANGED loc
          ELSE /\ loc' = [advance EXCEPT !.all_themis =
                             Append(loc.all_themis,
                                    [key |-> <<s, y>>,
                                     system |-> (CHOOSE e \in Range(loc.all_themis) :
                                                    e.key = copy_source(s, y)).system,
                                     scenario |-> s,
                                     reads |-> <<copy_source(s, y)>> \o lookups_after(s, y)])]
               /\ UNCHANGED <<pc, ret>>
    /\ UNCHANGED <<fs, meta_rec, opened, zips>>

\* the end of the loop
ThemisLoopEnd ==
    /\ pc = "themis_loop"
    /\ loc.si > Len(loc.scenarios)
    /\ IF fs.compute_all
       THEN /\ loc' = [loc EXCEPT !.si = 1, !.yi = 1]
            /\ pc' = "themis_compute"
            /\ UNCHANGED ret
       ELSE /\ ret' = [kind |-> "dict", all_themis |-> loc.all_themis]
            /\ pc' = "done"
            /\ UNCHANGED loc
    /\ UNCHANGED <<fs, meta_rec, opened, zips>>

\* if compute_all: one turn of the loop over the scenarios and the years
ThemisCompute ==
    /\ pc = "themis_compute"
    /\ loc.si <= Len(loc.scenarios)
    /\ LET s == loc.scenarios[loc.si]
           y == themis_years[loc.yi]
       IN IF <<s, y>> \notin ThemisKeys(loc.all_themis)
          THEN /\ ret' = Raise("KeyError")
               /\ pc' = "done"
               /\ UNCHANGED loc
          ELSE /\ loc' = [loc EXCEPT !.computed = loc.computed \cup {<<s, y>>},
                             !.si = IF loc.yi = Len(themis_years) THEN loc.si + 1 ELSE loc.si,
                             !.yi = IF loc.yi = Len(themis_years) THEN 1 ELSE loc.yi + 1]
               /\ UNCHANGED <<pc, ret>>
    /\ UNCHANGED <<fs, meta_rec, opened, zips>>

\* return(all_themis)
ThemisReturn ==
    /\ pc = "themis_compute"
    /\ loc.si > Len(loc.scenarios)
    /\ ret' = [kind |-> "dict", all_themis |-> loc.all_themis]
    /\ pc' = "done"
    /\ UNCHANGED <<fs, loc, meta_rec, opened, zips>>

InitThemis ==
    /\ pc = "themis_start"
    /\ \E year \in {<<>>} \cup {<<y>> : y \in Range(themis_years)}, scenario \in {None, "BL", "BM"},
          dlr_files \in {None, "True", "dlr/"}, combo \in BOOLEAN, compute_all \in BOOLEAN :
         fs = [adapter |-> "themis_parser", exio_files |-> "themis/", year |-> year,
               scenario |-> scenario, dlr_files |-> dlr_files, combo |-> combo,
               compute_all |-> compute_all]
    /\ loc = ThemisLoc0
    /\ meta_rec = <<>>
    /\ opened = <<>>
    /\ zips = {}
    /\ ret = NoRet

NextThemis == ThemisStart \/ ThemisLoop \/ ThemisLoopEnd \/ ThemisCompute \/ ThemisReturn

SpecThemis == InitThemis /\ [][NextThemis]_vars

\* the level names the parsers give (the values of IDX_NAMES)
IDX_NAMES ==
    {"region", "sector", "unit", "category", "stressor", "compartment", "source", "inputtype"}

(***************************************************************************)
(* Two calls of parse_wiod in two threads: the loop over dl_envext_para    *)
(***************************************************************************)
\* the 'unit' dicts of dl_envext_para; a dict is a function on its keys
dl_envext_unit ==
    [AIR |-> [CO2 |-> "Gg", CH4 |-> "t", N2O |-> "t", NOx |-> "t", SOx |-> "t", CO |-> "t",
              NMVOC |-> "t", NH3 |-> "t"],
     CO2 |-> [all |-> "Gg"], EM |-> [all |-> "TJ"], EU |-> [all |-> "TJ"],
     lan |-> [all |-> None], mat |-> [all |-> None], wat |-> [all |-> None]]

\* para['unit']['all'] = df_env.columns[0], if that is not 'level_0'
set_unit_all(unit, first_cell) ==
    IF first_cell # "level_0"
    THEN [x \in DOMAIN unit \cup {"all"} |-> IF x = "all" THEN first_cell ELSE unit[x]]
    ELSE unit

\* df_unit: para['unit'].get(ikr, para['unit'].get('all', 'undef')) for every stressor
df_unit_of(unit, stressors) ==
    LET _ss_unit == IF "all" \in DOMAIN unit THEN unit["all"] ELSE "undef"
    IN [i \in DOMAIN stressors |->
          IF stressors[i] \in DOMAIN unit THEN unit[stressors[i]] ELSE _ss_unit]

\* the stressors of the sheets of an extension
ThreadStressors(key) == IF key = "AIR" THEN <<"CO2", "CH4", "PM10">> ELSE <<"total">>

\* the calls that run in the two threads
Calls == {1, 2}

\* the dict every call reads and writes instead of its own
dl_envext_para_shared(call) == 1

\* dl_envext_para is bound by a dict display inside parse_wiod: every call has
\* its own
dl_envext_para_of(call) == call

\* the loop of one call, run alone: the extensions and the log it gives
RECURSIVE ext_alone(_, _)
ext_alone(first, k) ==
    IF k > Len(dl_envext_para) THEN <<>>
    ELSE LET key == dl_envext_para[k].key
         IN (IF first[key] = "absent" THEN <<>>
             ELSE << [tt |-> key, name |-> dl_envext_para[k].name,
                      unit |-> df_unit_of(set_unit_all(dl_envext_unit[key], first[key]),
                                          ThreadStressors(key))] >>)
            \o ext_alone(first, k + 1)

RECURSIVE log_of(_)
log_of(ext) ==
    IF ext = <<>> THEN <<>>
    ELSE _add_fileio(log_of(SubSeq(ext, 1, Len(ext) - 1)), <<"Extension", ext[Len(ext)].tt>>)

\* dl_envext_para = {...}
ThreadStart(call) ==
    /\ pc[call] = "thr_start"
    /\ pc' = [pc EXCEPT ![call] = "thr_read"]
    /\ loc' = [loc EXCEPT !.para[dl_envext_para_of(call)] = dl_envext_unit]
    /\ UNCHANGED <<fs, meta_rec, opened, zips, ret>>

\* __get_WIOD_env_extension up to the unit taken from the first cell of the sheet
ThreadRead(call) ==
    /\ pc[call] = "thr_read"
    /\ loc.k[call] <= Len(dl_envext_para)
    /\ LET key == dl_envext_para[loc.k[call]].key
           own == dl_envext_para_of(call)
       IN IF fs[call].first[key] = "absent"
          THEN /\ loc' = [loc EXCEPT !.k[call] = loc.k[call] + 1]
               /\ UNCHANGED <<pc, opened>>
          ELSE /\ loc' = [loc EXCEPT !.para[own][key] =
                             set_unit_all(loc.para[own][key], fs[call].first[key])]
               /\ opened' = Append(opened, <<call, key>>)
               /\ pc' = [pc EXCEPT ![call] = "thr_unit"]
    /\ UNCHANGED <<fs, meta_rec, zips, ret>>

\* the rest of __get_WIOD_env_extension (df_unit) and ext[ik_ext] = {...}
ThreadUnit(call) ==
    /\ pc[call] = "thr_unit"
    /\ LET key == dl_envext_para[loc.k[call]].key
           own == dl_envext_para_of(call)
       IN /\ loc' = [loc EXCEPT !.k[call] = loc.k[call] + 1,
                        !.ext[call] = Append(loc.ext[call],
                            [tt |-> key, name |-> dl_envext_para[loc.k[call]].name,
                             unit |-> df_unit_of(loc.para[own][key], ThreadStressors(key))])]
          /\ meta_rec' = [meta_rec EXCEPT ![call] = _add_fileio(meta_rec[call], <<"Extension", key>>)]
    /\ pc' = [pc EXCEPT ![call] = "thr_read"]
    /\ UNCHANGED <<fs, opened, zips, ret>>

\* the system of the call
ThreadBuild(call) ==
    /\ pc[call] = "thr_read"
    /\ loc.k[call] > Len(dl_envext_para)
    /\ ret' = [ret EXCEPT ![call] = [kind |-> "system", ext |-> loc.ext[call],
                                     meta |-> meta_rec[call]]]
    /\ pc' = [pc EXCEPT ![call] = "done"]
    /\ UNCHANGED <<fs, loc, meta_rec, opened, zips>>

\* the unit a call finds in the first cell of the sheets of an extension
ThreadFirstCells(call) ==
    {[key \in DOMAIN dl_envext_unit |->
         IF key = "wat" THEN "absent"
         ELSE IF key \in given THEN (IF call = 1 THEN "kt" ELSE "1000 ha")
         ELSE "level_0"] : given \in SUBSET {"AIR", "lan"}}

InitThreads ==
    /\ pc = [call \in Calls |-> "thr_start"]
    /\ fs \in [Calls -> [adapter : {"parse_wiod"}, first : ThreadFirstCells(1) \cup ThreadFirstCells(2)]]
    /\ fs[1].first \in ThreadFirstCells(1) /\ fs[2].first \in ThreadFirstCells(2)
    /\ loc = [k |-> [call \in Calls |-> 1], ext |-> [call \in Calls |-> <<>>],
              para |-> [call \in Calls |-> dl_envext_unit], IDX_NAMES |-> IDX_NAMES]
    /\ meta_rec = [call \in Calls |-> <<>>]
    /\ opened = <<>>
    /\ zips = {}
    /\ ret = [call \in Calls |-> NoRet]

NextThreads ==
    \E call \in Calls :
        ThreadStart(call) \/ ThreadRead(call) \/ ThreadUnit(call) \/ ThreadBuild(call)

SpecThreads == InitThreads /\ [][NextThreads]_vars

(***************************************************************************)
(* Properties                                                              *)
(***************************************************************************)
\* the tables of a returned system
SysZ == Get(ret.core, "Z").raw

SysY == Get(ret.core, "Y").raw

\* C1: in a system an adapter returns, the keys of Z's columns equal those of
\* Z's rows, Y's rows equal Z's rows, and the columns of the F of every
\* extension equal Z's columns (here for the systems of parse_wiod).
C1_JointIndexing ==
    Returned =>
        /\ SysZ.columns = SysZ.index
        /\ SysY.index = SysZ.index
        /\ \A e \in DOMAIN ret.ext : ret.ext[e].F.columns = SysZ.columns

\* C2: when several files match the pattern of one table, the mapping that
\* get_exiobase_files returns has an entry for that table whose file_path is
\* the first match.
C2_FirstMatchUsed ==
    pc # "exio_start" =>
        \A r \in DOMAIN exio_core_regex :
           LET found_file == SelectSeq(fs.path.filelist,
                                       LAMBDA ff : RegexSearch(exio_core_regex[r], ff))
           IN Len(found_file) > 1 =>
                 \E e \in DOMAIN loc.exio_files :
                    /\ loc.exio_files[e].tt = exio_core_regex[r].kk
                    /\ loc.exio_files[e].file_path = found_file[1]

\* a table no file of the location matches
ExioAbsent(kk) ==
    \A i \in DOMAIN fs.path.filelist : ~RegexSearch(RegexOf(kk), fs.path.filelist[i])

\* C3: if the A/Z file or the Y file is absent from the location while other
\* files are present, the call ends with a ParserError and returns no system.
C3_MissingRequiredFails ==
    (pc = "done" /\ fs.path.filelist # <<>> /\ (ExioAbsent("A") \/ ExioAbsent("Y")))
        => ret = Raise("ParserError")

\* the archive and the extracted folder of the AIR extension are both in root_path
WiodBothForms ==
    /\ \E i \in DOMAIN fs.root_content : fs.root_content[i].zip
    /\ \E i \in DOMAIN fs.root_content : ~fs.root_content[i].zip

\* C4: when the archive and the extracted folder of a WIOD extension are both
\* present, parse_wiod reads the extension from the folder and succeeds.
C4_ExtractedPreferred ==
    (pc = "done" /\ WiodBothForms /\ loc.wiot_year # ""
       /\ FirstLower(fs.names[Len(fs.names)]) \in {"c", "i", "f"})
        => /\ Returned
           /\ \E i \in DOMAIN opened : opened[i] = <<"AIR_may12", "USA">>

\* C5: when the adapter is left, by return or by exception, no archive handle
\* it opened is still open.
C5_NoHandleLeftOpen == pc = "done" => zips = {}

\* C6: the sum of all cells of Z after the aggregation of the CN and MX
\* sub-regions equals the sum of all cells of Z before it.
C6_MassPreserved ==
    Returned => TableSumNa(SysZ) = TableSumNa(loc.Z_split)

\* a key whose region is a sub-region code CN<digit> or MX<digit>
IsSubRegionKey(key) == MatchSub("CN", key[1]) \/ MatchSub("MX", key[1])

\* C7: after parse_oecd no sub-region code remains as a region in Z's rows,
\* Z's columns, Y's rows or the columns of the factor-input F.
C7_NoSubRegionLeft ==
    Returned =>
        \A key \in Range(SysZ.index) \cup Range(SysZ.columns) \cup Range(SysY.index)
                    \cup Range(ret.ext[1].F.columns) : ~IsSubRegionKey(key)

\* C8: at the end of a successful parse the history has exactly one fileio
\* entry for each raw file that was opened, naming that file (here for
\* parse_eora26 and its nine files).
C8_OneFileioPerFile ==
    Returned =>
        LET fileio == EntriesOf(meta_rec, "fileio")
        IN [i \in DOMAIN fileio |-> fileio[i].text] = opened

\* C9: every row or column dropped during structural correction has exactly
\* one modify entry in the history (here the total column and the total rows
\* of the WIOD workbook).
C9_OneModifyPerDrop ==
    Returned => Len(EntriesOf(meta_rec, "modify")) = Len(loc.dropped)

\* the workbook of C10: 2 regions x 2 sectors, 2 final demand categories per
\* region, three factor-input rows of which two carry the marks r60 and r69
IsSmallWiot ==
    /\ fs.adapter = "parse_wiod"
    /\ Len(fs.wiot.R) = 2 /\ fs.wiot.nsec = 2 /\ fs.wiot.nfd = 2
    /\ Len(fs.wiot.facinp_rows) = 3
    /\ {fs.wiot.facinp_rows[i].mark : i \in DOMAIN fs.wiot.facinp_rows} \ {"r60", "r69"}
          = {"r64"}

\* the row of the workbook that carries the mark r64, over the columns of Z
SmallWiotValueAdded ==
    LET raw == read_excel(fs.wiot)
        r == CHOOSE q \in 1..NRows(raw) : raw[q][wiot_header.c_code + 1] = "r64"
    IN [j \in 1..4 |-> raw[r][HeaderWidth + j]]

\* C10: for that workbook parse_wiod returns Z of shape (4,4), Y of shape
\* (4,4) and a factor_inputs extension whose F has shape (1,4) and holds only
\* the row that is no total.
C10_SmallWiotShapes ==
    (Returned /\ IsSmallWiot) =>
        /\ Shape(SysZ) = <<4, 4>>
        /\ Shape(SysY) = <<4, 4>>
        /\ Shape(Get(ret.ext, "factor_inputs").F) = <<1, 4>>
        /\ Get(ret.ext, "factor_inputs").F.index = << <<"Value added at basic prices">> >>
        /\ Get(ret.ext, "factor_inputs").F.values = << SmallWiotValueAdded >>

C10_Witness == Returned /\ IsSmallWiot

\* C11: in every extension of a returned system the row keys of the unit table
\* equal the row keys of the factor table (F or S) and the columns of F_Y equal
\* the columns of Y (here for the extensions generic_exiobase12_parser builds
\* from a factor file and a final demand file).
C11_UnitAndFYAligned ==
    Returned =>
        \A e \in DOMAIN ret.ext :
           \A t \in Range(ret.ext[e].tables) :
              /\ t.tt \in {"F", "S"} => ret.ext[e].unit.index = t.raw.index
              /\ (t.tt = "F_Y" /\ "Y" \in Keys(ret.core)) => t.raw.columns = SysY.columns

\* the names parameter of parse_wiod, as a pair
WiodNames == IF Len(fs.names) = 1 THEN <<fs.names[1], fs.names[1]>> ELSE fs.names

\* parse_wiod has reached the renaming with a names parameter whose sector or
\* final demand component is none of c, i, f
NamesNotUnderstood ==
    /\ pc = "done"
    /\ loc.k > Len(dl_envext_para)
    /\ \E n \in 1..2 : FirstLower(WiodNames[n]) \notin {"c", "i", "f"}

\* C18: parse_wiod called with a names parameter that is not understood falls
\* back to the ISIC codes for the sectors and to the c_codes for the final
\* demand categories and returns the system renamed that way.
C18_NamesFallback ==
    NamesNotUnderstood =>
        /\ Returned
        /\ SysZ.index = RenameKeys(dd_sec_rename(loc.wiot_sector_lookup,
                                       IF FirstLower(WiodNames[1]) \in {"c", "f"}
                                       THEN FirstLower(WiodNames[1]) ELSE "i"), loc.Z.index)
        /\ SysY.columns = RenameKeys(dd_fd_rename(loc.wiot_fd_lookup,
                                       IF FirstLower(WiodNames[2]) = "f" THEN "f" ELSE "c"),
                                     loc.Y.columns)

\* the keys of a sequence are pairwise different
AllDistinct(keys) == \A i, j \in DOMAIN keys : i # j => keys[i] # keys[j]

\* C19: after the renaming of parse_wiod, Z's rows, Z's columns, Y's rows and
\* the columns of every extension's F carry the same keys, Y's columns and
\* the columns of every extension's F_Y carry the same keys, and the keys of
\* each are pairwise different.
C19_RenamingKeepsIdentity ==
    Returned =>
        /\ SysZ.index = SysZ.columns
        /\ SysY.index = SysZ.index
        /\ AllDistinct(SysZ.index) /\ AllDistinct(SysY.columns)
        /\ \A e \in DOMAIN ret.ext :
              /\ ret.ext[e].F.columns = SysZ.index
              /\ ret.ext[e].F_Y.columns = SysY.columns

\* parse_wiod has reached its end without every optional satellite account:
\* the SEA extension or one of the environmental extensions was left out
WiodSatelliteOmitted ==
    /\ pc = "done"
    /\ loc.k > Len(dl_envext_para)
    /\ \A n \in 1..2 : FirstLower(WiodNames[n]) \in {"c", "i", "f"}
    /\ Len(loc.ext) < 2 + Len(dl_envext_para)

\* C16: when an optional satellite account of WIOD is unavailable, parse_wiod
\* returns a system without it and with the other tables, and the history
\* holds an entry that records the omission.
C16_OmissionRecorded ==
    WiodSatelliteOmitted =>
        /\ Returned
        /\ "Z" \in Keys(ret.core) /\ "Y" \in Keys(ret.core)
        /\ {ret.ext[e].tt : e \in DOMAIN ret.ext} = {loc.ext[e].tt : e \in DOMAIN loc.ext}
        /\ \E i \in DOMAIN meta_rec : meta_rec[i].kind = "note"

\* parse_exiobase2 was called with charact given as the path of a file and has
\* come to its end after generic_exiobase12_parser built the system
CharactGivenAsPath ==
    /\ fs.adapter = "parse_exiobase2"
    /\ pc = "done"
    /\ loc.io.kind = "system"
    /\ fs.charact.kind = "string"

\* C17: parse_exiobase2 called with charact given as a string path reads the
\* characterisation sheets from that file, reads no characterisation file
\* found in path, and does not fail for want of one in path.
C17_CharactPathUsed ==
    CharactGivenAsPath =>
        /\ fs.charact.value \in Range(opened)
        /\ \A i \in DOMAIN CharacFiles : <<fs.path.root, CharacFiles[i]>> \notin Range(opened)
        /\ ret # Raise("ParserError")

\* load_system has just computed Z, x and A from the tables of a step
Transformed == pc = "cec_invert"

Finite(M) == \A i \in 1..NRows(M) : \A j \in 1..NCols(M) : isfinite(M[i][j])

AllZero(M) == \A i \in 1..NRows(M) : \A j \in 1..NCols(M) : M[i][j] = Num0

\* C12: in the SUT to IOT transformation and the coefficients every ratio with
\* a zero denominator evaluates to 0: no cell of Z or A is NaN or infinite, a
\* column of A whose total output is 0 is 0, and Z is 0 when the supply is 0.
C12_RatiosFinite ==
    Transformed =>
        /\ Finite(loc.Z)
        /\ Finite(loc.A)
        /\ \A j \in DOMAIN loc.x :
              loc.x[j] = Num0 => \A i \in 1..NRows(loc.A) : loc.A[i][j] = Num0
        /\ AllZero(loc.S) => AllZero(loc.Z)

\* all the tables are zero, and Z and A have been computed
C12_Witness ==
    /\ Transformed
    /\ AllZero(loc.S) /\ AllZero(loc.U) /\ AllZero(loc.y)
    /\ NRows(loc.S) = 2

\* the reference of the transformation: 'pxp' Z[j][i] is the sum over k of
\* U[i][k] * S[k][j] / rowsum_k(S), 'ixi' Z[i][j] the sum over k of
\* (S[i][k] / colsum_k(S)) * U[k][j], a term with a zero denominator being 0
ReferenceTerm(a, b, denominator) ==
    IF denominator = Num0 THEN Num0 ELSE FMul(a, true_divide(b, denominator))

ReferenceIOT(S, U, kind) ==
    [i \in 1..NRows(S) |-> [j \in 1..NRows(S) |->
        FSum([k \in 1..NRows(S) |->
                IF kind = "pxp"
                THEN ReferenceTerm(U[j][k], S[k][i], np_sum_axis1(S)[k])
                ELSE ReferenceTerm(U[k][j], S[i][k], np_sum_axis0(S)[k])])]]

\* C14: IOT_from_SUT returns a square matrix equal to the reference, for 'pxp'
\* and for 'ixi'.
C14_MatchesReference ==
    Transformed =>
        /\ NRows(loc.Z) = NCols(loc.Z)
        /\ loc.Z = ReferenceIOT(loc.S, loc.U, fs.system)

\* a 'pxp' and an 'ixi' table that is not symmetric, with a zero denominator
C14_Witness ==
    /\ Transformed
    /\ loc.Z # np_transpose(loc.Z)
    /\ \E k \in 1..NRows(loc.S) :
          IF fs.system = "pxp" THEN np_sum_axis1(loc.S)[k] = Num0
          ELSE np_sum_axis0(loc.S)[k] = Num0

\* sum(x) of the tables of the state under a kind of system
TotalOutput(kind) ==
    IF kind = fs.system THEN FSum(loc.x)
    ELSE FSum(total_output(loc.y, IOT_from_SUT(loc.S, loc.U, kind)))

\* C13 as stated: for every supply, use and final demand of two products and
\* two industries the total output sum(x) is the same under 'pxp' and 'ixi'.
C13_TotalOutputSame ==
    (Transformed /\ NRows(loc.S) = 2) => TotalOutput("pxp") = TotalOutput("ixi")

NoZeroSum(S) ==
    /\ \A k \in 1..NRows(S) : np_sum_axis1(S)[k] # Num0
    /\ \A k \in 1..NCols(S) : np_sum_axis0(S)[k] # Num0

Total(M) == FSum(np_sum_axis1(M))

\* C13 amended: when no row and no column of the supply sums to 0, sum(x) is
\* sum(Y) + sum(U) under 'pxp' and under 'ixi'.
C13_TotalOutputSameRegular ==
    (Transformed /\ NRows(loc.S) = 2 /\ NoZeroSum(loc.S)) =>
        /\ TotalOutput("pxp") = TotalOutput("ixi")
        /\ FSum(loc.x) = FAdd(Total(loc.y), Total(loc.U))

\* a supply without zero sums that is not diagonal, and a use that is not 0
C13_Witness ==
    /\ Transformed /\ NRows(loc.S) = 2 /\ NoZeroSum(loc.S)
    /\ loc.S[1][2] # Num0
    /\ ~AllZero(loc.U)
    /\ IOT_from_SUT(loc.S, loc.U, "pxp") # IOT_from_SUT(loc.S, loc.U, "ixi")

\* the 1-norm of a matrix and the condition number of (I - A) in that norm
Norm1(M) ==
    LET RECURSIVE Largest(_)
        Largest(j) == IF j = 0 THEN Num0
                      ELSE FMax(FSum([i \in 1..NRows(M) |-> FAbs(M[i][j])]), Largest(j - 1))
    IN Largest(NCols(M))

\* of the (I - A) load_system has inverted
Cond == FMul(Norm1(Leontief(loc.A)), Norm1(loc.L))

\* condition numbers a caller may configure as the largest accepted one
CondThresholds == {10, 100}

\* C15: load_system fails with the singular-matrix error and returns no system
\* whenever (I - A) is singular or its condition number exceeds the threshold.
C15_IllConditionedRejected ==
    /\ (pc = "done" /\ loc.A # <<>> /\ Det(Leontief(loc.A)) = Num0)
          => ret = Raise("LinAlgError")
    /\ Returned => \A t \in CondThresholds : ~FLess(<<t, 1>>, Cond)

InVocabulary(names) ==
    /\ Range(names.index) \subseteq IDX_NAMES
    /\ Range(names.columns) \subseteq IDX_NAMES

\* C20: every level name of every table of a returned system is in the
\* vocabulary, and the columns of the final demand table are named
\* (region, category); here for the systems of cecilia_parser.
C20_LevelNamesInVocabulary ==
    Returned =>
        /\ \A t \in Range(ret.core) : InVocabulary(t.names)
        /\ \A t \in Range(ret.ext.materials.tables) : InVocabulary(t.names)
        /\ InVocabulary(ret.ext.labels.names)
        /\ Get(ret.core, "Y").names.columns = <<"region", "category">>

\* s is t or the beginning of t
IsPrefix(s, t) == Len(s) <= Len(t) /\ \A i \in DOMAIN s : s[i] = t[i]

OecdDataFiles(release) ==
    {fl \in Range(fs.path.listing) :
        /\ fl.start = release /\ fl.year = fs.year
        /\ fl.ext \in {".csv", ".CSV", ".zip"}}

\* C23: parse_oecd given a directory raises ParserError without a year or with
\* data files of both releases for the year, FileNotFoundError without a file
\* for the year, and otherwise parses a file named ICIO2016_<year> or
\* ICIO2018_<year>; given a file, it parses that file whatever the year.
C23_OecdFileChoice ==
    pc # "oecd_start" =>
        IF ~fs.path.isdir THEN loc.oecd_file = fs.path.file
        ELSE IF fs.year = "" THEN ret = Raise("ParserError")
        ELSE IF OecdDataFiles("ICIO2016_") # {} /\ OecdDataFiles("ICIO2018_") # {}
        THEN ret = Raise("ParserError")
        ELSE IF OecdDataFiles("ICIO2016_") \cup OecdDataFiles("ICIO2018_") = {}
        THEN ret = Raise("FileNotFoundError")
        ELSE /\ loc.oecd_file \in OecdDataFiles("ICIO2016_") \cup OecdDataFiles("ICIO2018_")
             /\ ret \notin {Raise("ParserError"), Raise("FileNotFoundError")}

\* a system parsed from a folder that holds more than one file
C23_Witness ==
    /\ Returned
    /\ fs.path.isdir
    /\ Len(fs.path.listing) > 1
    /\ loc.oecd_file \in Range(opened)

\* the regions of the table before the aggregation that end up in region R:
\* R and, when R is a target that is in the table, its sub-regions
OecdGroup(R) ==
    {R} \cup {a \in Range(RegionsOf(loc.Z_split.index)) :
                \E k \in DOMAIN agg_corr :
                    agg_corr[k].co_name = R /\ MatchSub(agg_corr[k].prefix, a)}

\* the sum of the cells of Z before the aggregation of the rows rows, columns cols
OecdOriginalSum(rows, cols) ==
    SeqSum([i \in DOMAIN loc.Z_split.index |->
              IF loc.Z_split.index[i] \notin rows THEN 0
              ELSE SeqSum([j \in DOMAIN loc.Z_split.columns |->
                             IF loc.Z_split.columns[j] \in cols
                             THEN loc.Z_split.values[i][j] ELSE 0])])

\* the regions of the table before the aggregation that are aggregated away
OecdAggregated ==
    {a \in Range(RegionsOf(loc.Z_split.index)) :
        \E k \in DOMAIN agg_corr :
            /\ MatchSub(agg_corr[k].prefix, a)
            /\ agg_corr[k].co_name \in Range(RegionsOf(loc.Z_split.index))}

\* C25: after the aggregation every cell of Z holds the sum of the original
\* cells of its row group and its column group (a target stands for itself and
\* its sub-regions, any other region for itself), and every sector of an
\* aggregated sub-region has a row and a column in its target: each original
\* cell is counted exactly once.
C25_EachCellCountedOnce ==
    Returned =>
        /\ \A i \in DOMAIN SysZ.index : \A j \in DOMAIN SysZ.columns :
              SysZ.values[i][j] =
                  OecdOriginalSum({<<r, SysZ.index[i][2]>> : r \in OecdGroup(SysZ.index[i][1])},
                                  {<<q, SysZ.columns[j][2]>> : q \in OecdGroup(SysZ.columns[j][1])})
        /\ \A key \in Range(loc.Z_split.index) :
              key[1] \in OecdAggregated =>
                  \E k \in DOMAIN agg_corr :
                      /\ MatchSub(agg_corr[k].prefix, key[1])
                      /\ <<agg_corr[k].co_name, key[2]>> \in Range(SysZ.index)
                      /\ <<agg_corr[k].co_name, key[2]>> \in Range(SysZ.columns)

\* the final demand labels of the file, in the order of the file
OecdFdLabels ==
    SelectSeq(fs.csv.columns, LAMBDA l : l \notin oecd_totals_col /\ IsFinalDemand(l))

\* C27: every final demand label becomes a (region, category) key, region
\* first: CAT_REG with REG a region of Z becomes (REG, CAT), REG_CAT stays, a
\* label without underscore becomes (ALL, label); the number and the order of
\* the columns of Y are those of the file and F_Y has the same column keys.
C27_FdKeysRegionFirst ==
    Returned =>
        /\ Len(SysY.columns) = Len(OecdFdLabels)
        /\ \A j \in DOMAIN OecdFdLabels :
              SysY.columns[j] =
                  IF Len(OecdFdLabels[j]) = 1 THEN <<"ALL", OecdFdLabels[j][1]>>
                  ELSE IF OecdFdLabels[j][2] \in Range(RegionsOf(loc.Z_split.index))
                  THEN <<OecdFdLabels[j][2], OecdFdLabels[j][1]>>
                  ELSE OecdFdLabels[j]
        /\ \A j \in DOMAIN SysY.columns :
              SysY.columns[j][1] \in Range(RegionsOf(loc.Z_split.index)) \cup {"ALL"}
        /\ ret.ext[1].F_Y.columns = SysY.columns

\* a system parsed from a file of the 2016 release, whose labels are reversed
C27_Witness ==
    /\ Returned
    /\ \E j \in DOMAIN OecdFdLabels :
          /\ Len(OecdFdLabels[j]) = 2
          /\ OecdFdLabels[j][2] \in Range(RegionsOf(loc.Z_split.index))
    /\ \E j \in DOMAIN OecdFdLabels : Len(OecdFdLabels[j]) = 1

\* the keys of the rows and of the columns of the k-th table of eora_header_spec
EoraIndexOf(k) == EoraLabels(fs.labels, eora_header_spec[k].index, loc.country_names)

EoraColumnsOf(k) == EoraLabels(fs.labels, eora_header_spec[k].columns, loc.country_names)

\* the sum of the cells of the file of the k-th table in the rows and columns
\* whose keys satisfy the two tests
EoraCellSum(k, RowTest(_), ColTest(_)) ==
    LET values == fs.data[eora_header_spec[k].key]
    IN SeqSum([i \in DOMAIN values |->
                 IF ~RowTest(EoraIndexOf(k)[i]) THEN 0
                 ELSE SeqSum([j \in DOMAIN values[i] |->
                                IF ColTest(EoraColumnsOf(k)[j]) THEN values[i][j] ELSE 0])])

IsRow(key) == key[1] = row_name

\* the entries of the history for the removal along an axis of a table
EoraEntries(key, what) ==
    SelectSeq(loc.removed, LAMBDA e : e.table = key /\ e.what = what)

\* C26: for each table and each axis on which ROW is present there is one
\* modify entry, whose amount is the sum of all the cells that removal takes
\* away; an axis without ROW gets no entry and keeps all its keys.
C26_RemovedAmountLogged ==
    Returned =>
        \A k \in DOMAIN eora_header_spec :
            LET key == eora_header_spec[k].key
                final == loc.eora_data[k].raw
            IN /\ IF \E j \in DOMAIN EoraColumnsOf(k) : IsRow(EoraColumnsOf(k)[j])
                  THEN /\ Len(EoraEntries(key, "row")) = 1
                       /\ EoraEntries(key, "row")[1].amount =
                             EoraCellSum(k, LAMBDA r : TRUE, IsRow)
                  ELSE /\ EoraEntries(key, "row") = <<>>
                       /\ final.columns = EoraColumnsOf(k)
               /\ IF \E i \in DOMAIN EoraIndexOf(k) : IsRow(EoraIndexOf(k)[i])
                  THEN /\ Len(EoraEntries(key, "column")) = 1
                       /\ EoraEntries(key, "column")[1].amount =
                             EoraCellSum(k, IsRow, LAMBDA c : ~IsRow(c))
                  ELSE /\ EoraEntries(key, "column") = <<>>
                       /\ final.index = EoraIndexOf(k)

\* C24: for a synthetic file built with a separator among tab, comma and
\* semicolon, 1 to 3 header rows and 1 to 3 index columns, the sniffer returns
\* that separator, that number of header rows and that number of index columns.
C24_SnifferRoundTrip ==
    (pc = "done" /\ fs.rows > 0) =>
        ret = [kind |-> "format", sep |-> fs.sep,
               nr_header_row |-> fs.nr_header_row, nr_index_col |-> fs.nr_index_col]

\* a semicolon file of three header rows and two index columns, a comma inside
\* a label, sniffed
C24_Witness ==
    /\ pc = "done" /\ ret.kind = "format"
    /\ fs.sep = ";" /\ fs.nr_header_row = 3 /\ fs.nr_index_col = 2
    /\ \E i \in DOMAIN fs.lines : CountOf(fs.lines[i], ",") > 0

\* C28: every located file is read with the layout get_exiobase_files recorded
\* for it (separator, number of header rows, number of index columns), in a zip
\* archive and on disk.
C28_ReadWithRecordedLayout ==
    pc # "exio_start" =>
        \A i \in DOMAIN loc.reads :
            /\ loc.reads[i].tt = loc.exio_files[i].tt
            /\ loc.reads[i].index_col = loc.exio_files[i].index_col
            /\ loc.reads[i].header = loc.exio_files[i].index_rows
            /\ loc.reads[i].sep = loc.exio_files[i].sep

\* the header rows and the index columns of every read are the recorded ones
C28_RecordedRowsAndColumns ==
    pc # "exio_start" =>
        \A i \in DOMAIN loc.reads :
            /\ loc.reads[i].tt = loc.exio_files[i].tt
            /\ loc.reads[i].index_col = loc.exio_files[i].index_col
            /\ loc.reads[i].header = loc.exio_files[i].index_rows

\* the versions a call can join from the located files
JoinedVersions(exio_files) ==
    {IF Len(version) = 0 THEN << <<1>> >> ELSE version :
        version \in Joinings({exio_files[i].version : i \in DOMAIN exio_files} \ {<<>>})}

\* C30: two calls on the same located files give the same version string and
\* the same year (and so the same outcome), whatever the versions of the files.
C30_VersionDetermined ==
    (pc # "exio_start" /\ loc.exio_files # <<>>) =>
        \A version \in JoinedVersions(loc.exio_files) :
            /\ version = loc.version
            /\ VersionHead(version) = VersionHead(loc.version)

\* C29: in the all-scenario mode of themis_parser, for every dlr_files and
\* combo, every derived system reads only systems that are already built, no
\* lookup misses a scenario or a year, and the result holds the years 2010,
\* 2030 and 2050 for every scenario of the selected list and nothing else.
C29_DerivedReadBuilt ==
    /\ ret # Raise("KeyError")
    /\ \A i \in DOMAIN loc.all_themis :
          \A k \in Range(loc.all_themis[i].reads) :
              \E j \in 1..i : loc.all_themis[j].key = k
    /\ (pc = "done" /\ ret.kind = "dict") =>
          /\ ThemisKeys(ret.all_themis) =
                (IF fs.dlr_files = None THEN {"BL", "BM"}
                 ELSE IF fs.combo THEN {"BL", "BM", "REF", "ER", "ADV", "combo"}
                 ELSE {"BL", "BM", "REF", "ER", "ADV"}) \X {2010, 2030, 2050}
          /\ \A i, j \in DOMAIN ret.all_themis :
                ret.all_themis[i].key = ret.all_themis[j].key => i = j

\* the six scenarios returned, the combo systems among them
C29_Witness ==
    /\ pc = "done" /\ ret.kind = "dict"
    /\ fs.dlr_files # None /\ fs.combo
    /\ \E e \in Range(ret.all_themis) : e.key = <<"combo", 2030>> /\ <<"ER", 2050>> \in Range(e.reads)

\* C22: two calls interleaved in two threads on independent inputs give the
\* systems and the logs the calls give when run one after the other; no call
\* writes module-level state such as IDX_NAMES, and the unit parameters that
\* __get_WIOD_env_extension updates belong to one call.
C22_ThreadsAsSequential ==
    /\ loc.IDX_NAMES = IDX_NAMES
    /\ \A call \in Calls :
          pc[call] = "done" =>
              /\ ret[call].ext = ext_alone(fs[call].first, 1)
              /\ ret[call].meta = log_of(ext_alone(fs[call].first, 1))

\* both calls have returned, each had a unit of its own for the same extension,
\* and their reads of that extension's sheets alternated
C22_Witness ==
    /\ \A call \in Calls : pc[call] = "done" /\ fs[call].first["lan"] # "level_0"
    /\ \E i, j, k \in DOMAIN opened :
          i < j /\ j < k /\ opened[i][1] = 1 /\ opened[j][1] = 2 /\ opened[k][1] = 1

====
